---- MODULE Spec2Model ----
(***************************************************************************)
(* A model of scagaire: AMR result parsing (AmrParser, Abricate097 and the *)
(* other dialect parsers), format detection (IdentifyResults), the species *)
(* knowledge base (SpeciesToGenes), species filtering (FilterResults), the *)
(* gene summary (Summary), the run over a species list (Scagaire), the     *)
(* database builder (ScagaireDownload, AbricateAmrResults,                 *)
(* SpeciesDatabase) and the comparison of two species (ScagaireCompare).   *)
(*                                                                         *)
(* A call of a Python function is modelled by an operator that returns an  *)
(* outcome: Returned(v) for `return v`, Raised(e) for an exception e that  *)
(* leaves the function.                                                    *)
(***************************************************************************)
EXTENDS Integers, Sequences, FiniteSets, TLC

VARIABLES
    input_file,          \* rows of the AMR results file, header line first
    results_type,        \* the type hint ('abricate', 'staramr', 'rgi' or None)
    database_file,       \* rows of the species-to-genes file, header line first
    database_name,       \* FilterResults.database_name
    minimum_occurances,  \* FilterResults.minimum_occurances
    pc,                  \* position of the call in progress
    consulted,           \* the parsers constructed so far by get_results
    species,             \* argument of the last filter_by_species call
    ret,                 \* outcome of the last call
    summary,             \* outcome of the last aggregate_results call
    self_species,        \* Scagaire.species: the species list of a run
    processed,           \* how many species of the list the run has finished
    output_content,      \* outcome of rendering the records, one str each
    output_file,         \* lines of the output file (None: no file given)
    stdout,              \* lines printed to the console
    summary_file,        \* lines of the summary file
    answer,              \* outcome of the last knowledge-base query
    options,             \* the command-line options Scagaire is constructed with
    files_on_disk,       \* which of output_file and summary_file exist
    passes,              \* the local variables of each filter pass in progress
    builder              \* the database builder: its fields and the disk it sees

vars == <<input_file, results_type, database_file, database_name,
          minimum_occurances, pc, consulted, species, ret, summary,
          self_species, processed, output_content, output_file, stdout,
          summary_file, answer, options, files_on_disk, passes, builder>>

\* what a run of Scagaire reads and writes, and what a query answers
outputs == <<self_species, processed, output_content, output_file, stdout,
             summary_file, answer, files_on_disk>>

\* what the filter passes and the database builder work on
others == <<passes, builder>>

\* the files and options a run is given: no operation changes them
inputs == <<input_file, results_type, database_file, database_name,
            minimum_occurances, options>>

-----------------------------------------------------------------------------
(* Python values and outcomes *)

None == "<None>"

Returned(v) == [status |-> "ok", value |-> v, error |-> ""]

RaisedList(e) == [status |-> "raise", value |-> <<>>, error |-> e]

RaisedBool(e) == [status |-> "raise", value |-> FALSE, error |-> e]

Range(s) == {s[i] : i \in DOMAIN s}

-----------------------------------------------------------------------------
(* The four dialect parsers: class attributes set by each __init__ *)

Dialects == {"Abricate098", "Abricate097", "Staramr", "Rgi"}

Abricate097_default_header ==
    <<"#FILE", "SEQUENCE", "START", "END", "GENE", "COVERAGE", "COVERAGE_MAP",
      "GAPS", "%COVERAGE", "%IDENTITY", "DATABASE", "ACCESSION", "PRODUCT">>

Abricate097_column_to_variable_mapping ==
    ("#FILE" :> "file") @@ ("SEQUENCE" :> "sequence") @@ ("START" :> "start") @@
    ("END" :> "end") @@ ("GENE" :> "gene") @@ ("COVERAGE" :> "coverage") @@
    ("COVERAGE_MAP" :> "coverage_map") @@ ("GAPS" :> "gaps") @@
    ("%COVERAGE" :> "perc_coverage") @@ ("%IDENTITY" :> "perc_identity") @@
    ("DATABASE" :> "database") @@ ("ACCESSION" :> "accession") @@
    ("PRODUCT" :> "product")

Abricate097_minimum_num_columns == 13

Abricate098_default_header ==
    <<"#FILE", "SEQUENCE", "START", "END", "STRAND", "GENE", "COVERAGE",
      "COVERAGE_MAP", "GAPS", "%COVERAGE", "%IDENTITY", "DATABASE", "ACCESSION",
      "PRODUCT", "RESISTANCE">>

Abricate098_column_to_variable_mapping ==
    Abricate097_column_to_variable_mapping @@
    ("STRAND" :> "strand") @@ ("RESISTANCE" :> "resistance")

Abricate098_minimum_num_columns == 15

Staramr_default_header ==
    <<"Isolate ID", "Gene", "Predicted Phenotype", "%Identity", "%Overlap",
      "HSP Length/Total Length", "Contig", "Start", "End", "Accession">>

Staramr_column_to_variable_mapping ==
    ("Isolate ID" :> "file") @@ ("Gene" :> "gene") @@
    ("Predicted Phenotype" :> "resistance") @@ ("%Identity" :> "perc_identity") @@
    ("%Overlap" :> "perc_coverage") @@ ("HSP Length/Total Length" :> "coverage") @@
    ("Contig" :> "sequence") @@ ("Start" :> "start") @@ ("End" :> "end") @@
    ("Accession" :> "accession")

Staramr_minimum_num_columns == 10

Rgi_default_header ==
    <<"ORF_ID", "Contig", "Start", "Stop", "Orientation", "Cut_Off",
      "Pass_Bitscore", "Best_Hit_Bitscore", "Best_Hit_ARO", "Best_Identities",
      "ARO", "Model_type", "SNPs_in_Best_Hit_ARO", "Other_SNPs", "Drug Class",
      "Resistance Mechanism", "AMR Gene Family", "Predicted_DNA",
      "Predicted_Protein", "CARD_Protein_Sequence",
      "Percentage Length of Reference Sequence", "ID", "Model_ID", "Nudged",
      "Note">>

Rgi_column_to_variable_mapping ==
    ("ORF_ID" :> "orf_id") @@ ("Contig" :> "contig") @@ ("Start" :> "start") @@
    ("Stop" :> "end") @@ ("Orientation" :> "orientation") @@
    ("Cut_Off" :> "cut_off") @@ ("Pass_Bitscore" :> "pass_bitscore") @@
    ("Best_Hit_Bitscore" :> "best_hit_bitscore") @@ ("Best_Hit_ARO" :> "gene") @@
    ("Best_Identities" :> "best_identities") @@ ("ARO" :> "aro") @@
    ("Model_type" :> "model_type") @@
    ("SNPs_in_Best_Hit_ARO" :> "snps_in_best_hit_aro") @@
    ("Other_SNPs" :> "other_snps") @@ ("Drug Class" :> "drug_class") @@
    ("Resistance Mechanism" :> "resistance_mechanism") @@
    ("AMR Gene Family" :> "amr_gene_family") @@
    ("Predicted_DNA" :> "predicted_dna") @@
    ("Predicted_Protein" :> "predicted_protein") @@
    ("CARD_Protein_Sequence" :> "card_protein_sequence") @@
    ("Percentage Length of Reference Sequence" :>
         "percentage_length_of_reference_sequence") @@
    ("ID" :> "id") @@ ("Model_ID" :> "model_id") @@ ("Nudged" :> "nudged") @@
    ("Note" :> "note")

Rgi_minimum_num_columns == 24

default_header(d) ==
    CASE d = "Abricate098" -> Abricate098_default_header
      [] d = "Abricate097" -> Abricate097_default_header
      [] d = "Staramr"     -> Staramr_default_header
      [] d = "Rgi"         -> Rgi_default_header

column_to_variable_mapping(d) ==
    CASE d = "Abricate098" -> Abricate098_column_to_variable_mapping
      [] d = "Abricate097" -> Abricate097_column_to_variable_mapping
      [] d = "Staramr"     -> Staramr_column_to_variable_mapping
      [] d = "Rgi"         -> Rgi_column_to_variable_mapping

minimum_num_columns(d) ==
    CASE d = "Abricate098" -> Abricate098_minimum_num_columns
      [] d = "Abricate097" -> Abricate097_minimum_num_columns
      [] d = "Staramr"     -> Staramr_minimum_num_columns
      [] d = "Rgi"         -> Rgi_minimum_num_columns

-----------------------------------------------------------------------------
(* The result classes: the attributes each __init__ sets to None, in the   *)
(* order in which __str__ joins them                                       *)

AbricateResult097_attributes ==
    <<"file", "sequence", "start", "end", "gene", "coverage", "coverage_map",
      "gaps", "perc_coverage", "perc_identity", "database", "accession",
      "product">>

AbricateResult098_attributes ==
    <<"file", "sequence", "start", "end", "strand", "gene", "coverage",
      "coverage_map", "gaps", "perc_coverage", "perc_identity", "database",
      "accession", "product", "resistance">>

StaramrResult_attributes ==
    <<"file", "gene", "resistance", "perc_identity", "perc_coverage", "coverage",
      "sequence", "start", "end", "accession">>

RgiResult_attributes ==
    <<"orf_id", "contig", "start", "end", "orientation", "cut_off",
      "pass_bitscore", "best_hit_bitscore", "gene", "best_identities", "aro",
      "model_type", "snps_in_best_hit_aro", "other_snps", "drug_class",
      "resistance_mechanism", "amr_gene_family", "predicted_dna",
      "predicted_protein", "card_protein_sequence",
      "percentage_length_of_reference_sequence", "id", "model_id", "nudged",
      "note">>

result_attributes(d) ==
    CASE d = "Abricate098" -> AbricateResult098_attributes
      [] d = "Abricate097" -> AbricateResult097_attributes
      [] d = "Staramr"     -> StaramrResult_attributes
      [] d = "Rgi"         -> RgiResult_attributes

\* XResult(header = self.default_header): every attribute None; the header
\* attribute of a result is the default header of its class
NewResult(d) ==
    [class |-> d, attrs |-> [a \in Range(result_attributes(d)) |-> None]]

result_header(r) == default_header(r.class)

RaisedStr(e) == [status |-> "raise", value |-> "", error |-> e]

\* delimiter.join(fields)
RECURSIVE join(_, _)
join(delimiter, fields) ==
    IF fields = <<>> THEN ""
    ELSE IF Len(fields) = 1 THEN fields[1]
    ELSE fields[1] \o delimiter \o join(delimiter, Tail(fields))

\* a __str__ that leaves out the last attribute of the class
Result_str_without_last(r) ==
    LET names  == result_attributes(r.class)
        values == [i \in 1..Len(names) - 1 |-> r.attrs[names[i]]]
    IN  IF \E i \in DOMAIN values : values[i] = None
        THEN RaisedStr("TypeError")
        ELSE Returned(join("\t", values))

\* XResult.__str__: the attributes joined by the delimiter in the order the
\* class lists them; str.join raises TypeError on an attribute left None
Result_str(r) ==
    LET names  == result_attributes(r.class)
        values == [i \in 1..Len(names) |-> r.attrs[names[i]]]
    IN  IF \E i \in DOMAIN values : values[i] = None
        THEN RaisedStr("TypeError")
        ELSE Returned(join("\t", values))

\* [str(r) for r in results]
RECURSIVE render_from(_, _, _)
render_from(results, i, lines) ==
    IF i > Len(results) THEN Returned(lines)
    ELSE LET line == Result_str(results[i])
         IN  IF line.status = "raise" THEN RaisedList(line.error)
             ELSE render_from(results, i + 1, Append(lines, line.value))

render(results) == render_from(results, 1, <<>>)

-----------------------------------------------------------------------------
(* AmrParser *)

\* csv.Sniffer().sniff(first line, [',', '\t']) finds a delimiter only in a
\* first line that holds one, that is, a header of two columns or more
Sniffable(file_contents) ==
    /\ Len(file_contents) >= 1
    /\ Len(file_contents[1]) >= 2

read_file_multi_delimiters(file) ==
    IF Sniffable(file) THEN Returned(file)
    ELSE RaisedList("csv.Error")

\* file_contents.pop(0): the header; the data rows stay in file_contents
get_header(file_contents) == Head(file_contents)

\* a validation that compares the header's columns as a set
is_valid_as_set(header, defaults, i) ==
    Returned(Range(header) = Range(defaults))

RECURSIVE is_valid_from(_, _, _)
is_valid_from(header, defaults, i) ==
    IF i > Len(header) THEN Returned(TRUE)
    ELSE IF i > Len(defaults) THEN RaisedBool("IndexError")
    ELSE IF header[i] # defaults[i] THEN Returned(FALSE)
    ELSE is_valid_from(header, defaults, i + 1)

is_valid(d, header) == is_valid_from(header, default_header(d), 1)

-----------------------------------------------------------------------------
(* Abricate097.populate_results; Abricate098, Staramr and Rgi repeat it    *)
(* with their own class attributes                                         *)

\* for index, value in enumerate(row): setattr through the file's header
RECURSIVE map_columns(_, _, _, _, _)
map_columns(d, header, row, index, ab_result) ==
    IF index > Len(row) THEN Returned(ab_result)
    ELSE IF index > Len(header) THEN RaisedList("IndexError")
    ELSE IF header[index] \in DOMAIN column_to_variable_mapping(d)
         THEN map_columns(d, header, row, index + 1,
                  [ab_result EXCEPT
                      !.attrs[column_to_variable_mapping(d)[header[index]]] =
                          row[index]])
         ELSE map_columns(d, header, row, index + 1, ab_result)

\* a row loop without the `Skip incomplete rows` test
RECURSIVE populate_rows_no_skip(_, _, _, _, _)
populate_rows_no_skip(d, header, rows, i, abricate_results) ==
    IF i > Len(rows) THEN Returned(abricate_results)
    ELSE LET r == map_columns(d, header, rows[i], 1, NewResult(d))
         IN  IF r.status = "raise" THEN RaisedList(r.error)
             ELSE populate_rows_no_skip(d, header, rows, i + 1,
                                        Append(abricate_results, r.value))

RECURSIVE populate_rows(_, _, _, _, _)
populate_rows(d, header, rows, i, abricate_results) ==
    IF i > Len(rows) THEN Returned(abricate_results)
    ELSE IF Len(rows[i]) < minimum_num_columns(d)
         THEN populate_rows(d, header, rows, i + 1, abricate_results)
         ELSE LET r == map_columns(d, header, rows[i], 1, NewResult(d))
              IN  IF r.status = "raise" THEN RaisedList(r.error)
                  ELSE populate_rows(d, header, rows, i + 1,
                                     Append(abricate_results, r.value))

populate_results(d, file) ==
    LET read == read_file_multi_delimiters(file)
    IN  IF read.status = "raise" THEN read
        ELSE populate_rows(d, get_header(read.value), Tail(read.value), 1, <<>>)

\* The parser object after __init__: header read from the file and results,
\* or the exception that left the constructor
Parser(d, file) ==
    LET res == populate_results(d, file)
    IN  IF res.status = "raise"
        THEN [status |-> "raise", error |-> res.error,
              header |-> <<>>, results |-> <<>>]
        ELSE [status |-> "ok", error |-> "",
              header |-> get_header(file), results |-> res.value]

-----------------------------------------------------------------------------
(* IdentifyResults.get_results *)

\* The order in which get_results constructs the parsers
parser_order == <<"Abricate098", "Abricate097", "Staramr", "Rgi">>

ResultsTypes == {None, "abricate", "staramr", "rgi"}

\* a block of Abricate098 that the hint 'abricate' selects as well
type_set_explicitly_098_too(d, type) ==
    CASE d = "Abricate098" -> type = "abricate"
      [] d = "Abricate097" -> type = "abricate"
      [] d = "Staramr"     -> type = "staramr"
      [] d = "Rgi"         -> type = "rgi"

\* the `or self.results_type == '...'` of the parser's block; the block of
\* Abricate098 has none
type_set_explicitly(d, type) ==
    CASE d = "Abricate098" -> FALSE
      [] d = "Abricate097" -> type = "abricate"
      [] d = "Staramr"     -> type = "staramr"
      [] d = "Rgi"         -> type = "rgi"

FallThrough == [status |-> "next", value |-> <<>>, error |-> ""]

\* a block in which a type hint overrides header validation: with a hint, only
\* the hinted parser returns
try_parser_hint_overrides(d, file, type) ==
    LET p == Parser(d, file)
    IN  IF p.status = "raise" THEN RaisedList(p.error)
        ELSE LET v == is_valid(d, p.header)
             IN  IF v.status = "raise" THEN RaisedList(v.error)
                 ELSE IF (type = None /\ v.value) \/ type_set_explicitly(d, type)
                      THEN Returned(p.results)
                      ELSE FallThrough

\* One block of get_results: construct the parser, then
\* `if p.is_valid() or self.results_type == ...: return p.results`
try_parser(d, file, type) ==
    LET p == Parser(d, file)
    IN  IF p.status = "raise" THEN RaisedList(p.error)
        ELSE LET v == is_valid(d, p.header)
             IN  IF v.status = "raise" THEN RaisedList(v.error)
                 ELSE IF v.value \/ type_set_explicitly(d, type)
                      THEN Returned(p.results)
                      ELSE FallThrough

RECURSIVE get_results_from(_, _, _)
get_results_from(k, file, type) ==
    IF k > Len(parser_order) THEN Returned(<<>>)
    ELSE LET b == try_parser(parser_order[k], file, type)
         IN  IF b.status = "next" THEN get_results_from(k + 1, file, type)
             ELSE b

get_results(file, type) == get_results_from(1, file, type)

-----------------------------------------------------------------------------
(* Inputs *)

MaxRows == 2

MaxExtraColumns == 1

NoCall == [status |-> "none", value |-> <<>>, error |-> ""]

Swap(h, i, j) ==
    [k \in 1..Len(h) |-> IF k = i THEN h[j] ELSE IF k = j THEN h[i] ELSE h[k]]

Rotate(h, n) == SubSeq(h, n + 1, Len(h)) \o SubSeq(h, 1, n)

ExtraColumns(n) == [k \in 1..n |-> "EXTRA"]

\* every exchange of two columns and every rotation of a dialect's header
PermutedHeaders(d) ==
    LET h == default_header(d)
    IN  {Swap(h, i, j) : i, j \in 1..Len(h)} \cup {Rotate(h, n) : n \in 0..Len(h) - 1}

\* the proper prefixes of a dialect's header that hold a delimiter
PrefixHeaders(d) ==
    LET h == default_header(d) IN {SubSeq(h, 1, k) : k \in 2..Len(h) - 1}

\* a dialect's header followed by extra trailing columns
ExtendedHeaders(d) ==
    {default_header(d) \o ExtraColumns(n) : n \in 1..MaxExtraColumns}

ForeignHeaders == {<<"foo", "bar">>, <<"GENE", "#FILE", "x">>}

NoDatabase ==
    /\ database_file = <<>>
    /\ database_name = None
    /\ minimum_occurances = 0
    /\ species = None
    /\ summary = NoCall

NoOptions == [species |-> <<>>, overwrite_files |-> FALSE]

NoPasses == passes = <<>>

NoBuilder == builder = [pc |-> "none"]

\* no filter pass in progress and no database builder
NoOthers == NoPasses /\ NoBuilder

\* no results file, no knowledge base, no Scagaire
Idle ==
    /\ input_file = <<>>
    /\ results_type = None
    /\ database_file = <<>>
    /\ database_name = ""
    /\ minimum_occurances = 0
    /\ pc = "idle"
    /\ consulted = <<>>
    /\ species = None
    /\ ret = NoCall
    /\ summary = NoCall
    /\ self_species = <<>>
    /\ processed = 0
    /\ output_content = NoCall
    /\ output_file = None
    /\ stdout = <<>>
    /\ summary_file = <<>>
    /\ answer = NoCall
    /\ options = NoOptions
    /\ files_on_disk = {}

NoRun ==
    /\ self_species = <<>>
    /\ processed = 0
    /\ output_content = NoCall
    /\ output_file = None
    /\ stdout = <<>>
    /\ summary_file = <<>>
    /\ answer = NoCall
    /\ options = NoOptions
    /\ files_on_disk = {}
    /\ NoOthers

-----------------------------------------------------------------------------
(* Header validation: a parser is constructed on a file and asked is_valid *)

InitValidate ==
    /\ \E d \in Dialects :
         /\ consulted = <<d>>
         /\ \E h \in PermutedHeaders(d) \cup PrefixHeaders(d)
                     \cup ExtendedHeaders(d) \cup ForeignHeaders :
                input_file = <<h>>
    /\ pc = "is_valid"
    /\ ret = NoCall
    /\ results_type = None
    /\ NoDatabase
    /\ NoRun

Validate ==
    /\ pc = "is_valid"
    /\ LET p == Parser(consulted[1], input_file)
       IN  ret' = IF p.status = "raise" THEN RaisedBool(p.error)
                  ELSE is_valid(consulted[1], p.header)
    /\ pc' = "validated"
    /\ UNCHANGED <<inputs, others, outputs, consulted, species, summary>>

NextValidate == Validate

SpecValidate == InitValidate /\ [][NextValidate]_vars

-----------------------------------------------------------------------------
(* Format detection: get_results on a results file, one parser at a time *)

Genes == {"geneA", "geneB", "geneC"}

Cell(i) == "v" \o ToString(i)

\* the position of the column that a dialect maps to the gene attribute
gene_column(d) ==
    CHOOSE i \in 1..Len(default_header(d)) :
        column_to_variable_mapping(d)[default_header(d)[i]] = "gene"

\* a data row of n fields that names gene g where dialect d expects it
DataRow(d, n, g) == [i \in 1..n |-> IF i = gene_column(d) THEN g ELSE Cell(i)]

\* row lengths around a dialect's minimum and around its header's length
RowLengths(d) ==
    {0, minimum_num_columns(d) - 1, minimum_num_columns(d)} \cup
    {Len(default_header(d)) + k : k \in 0..MaxExtraColumns + 1}

RowLists(pool, n) == UNION {[1..k -> pool] : k \in 0..n}

DetectHeaders(d) ==
    LET h == default_header(d)
    IN  {h, SubSeq(h, 1, 2), SubSeq(h, 1, Len(h) - 1),
         Swap(h, 1, 2), Swap(h, Len(h) - 1, Len(h))}
        \cup ExtendedHeaders(d) \cup ForeignHeaders

InitDetect ==
    /\ \E d \in Dialects :
         \E h \in DetectHeaders(d) :
           \E rows \in RowLists({DataRow(d, n, "geneA") : n \in RowLengths(d)},
                                MaxRows) :
              input_file = <<h>> \o rows
    /\ results_type \in ResultsTypes
    /\ pc = "get_results"
    /\ consulted = <<>>
    /\ ret = NoCall
    /\ NoDatabase
    /\ NoRun

\* the block of get_results that constructs parser d
Try(d) ==
    /\ pc = "get_results"
    /\ Len(consulted) < Len(parser_order)
    /\ parser_order[Len(consulted) + 1] = d
    /\ consulted' = Append(consulted, d)
    /\ LET b == try_parser(d, input_file, results_type)
       IN  IF b.status = "next"
           THEN UNCHANGED <<pc, ret>>
           ELSE pc' = "done" /\ ret' = b
    /\ UNCHANGED <<inputs, others, outputs, species, summary>>

TryAbricate098 == Try("Abricate098")

TryAbricate097 == Try("Abricate097")

TryStaramr == Try("Staramr")

TryRgi == Try("Rgi")

\* No valid format found: return []
NoValidFormat ==
    /\ pc = "get_results"
    /\ Len(consulted) = Len(parser_order)
    /\ pc' = "done"
    /\ ret' = Returned(<<>>)
    /\ UNCHANGED <<inputs, others, outputs, consulted, species, summary>>

\* the records that get_results returned, rendered one str each
RenderResults ==
    /\ pc = "done"
    /\ ret.status = "ok"
    /\ output_content' = render(ret.value)
    /\ pc' = "rendered"
    /\ UNCHANGED <<inputs, others, consulted, species, ret, summary, self_species,
                   processed, output_file, stdout, summary_file, answer,
                   files_on_disk>>

NextDetect ==
    \/ TryAbricate098
    \/ TryAbricate097
    \/ TryStaramr
    \/ TryRgi
    \/ NoValidFormat
    \/ RenderResults

SpecDetect == InitDetect /\ [][NextDetect]_vars

\* the steps of get_results end in the outcome of the whole call
DetectAgrees == pc = "done" => ret = get_results(input_file, results_type)

-----------------------------------------------------------------------------
(* SpeciesGenes and SpeciesToGenes: the species knowledge base *)

\* int(row[2]) on the count fields that the inputs use: the integer a decimal
\* literal denotes, ValueError for any other text
IntLiterals ==
    ("0" :> 0) @@ ("1" :> 1) @@ ("2" :> 2) @@ ("3" :> 3) @@ ("4" :> 4) @@
    ("5" :> 5) @@ ("6" :> 6) @@ ("-1" :> -1)

int(text) ==
    IF text \in DOMAIN IntLiterals THEN Returned(IntLiterals[text])
    ELSE [status |-> "raise", value |-> 0, error |-> "ValueError"]

SpeciesGenes(sp, gene, occurances, db) ==
    [species |-> sp, gene |-> gene, occurances |-> occurances,
     database_name |-> db]

SpeciesToGenes_minimum_num_columns == 3

\* sniff the first line, skip it as the header, return the rows after it
read_file_keeping_first_row(file) ==
    IF Sniffable(file) THEN Returned(file)
    ELSE RaisedList("csv.Error")

SpeciesToGenes_read_file_multi_delimiters(file) ==
    IF Sniffable(file) THEN Returned(Tail(file))
    ELSE RaisedList("csv.Error")

\* SpeciesGenes(str(row[0]), str(row[1]), int(row[2]), str(row[4])): the
\* arguments are evaluated from left to right
\* a loader that passes over a row whose count is no integer
RECURSIVE populate_from_skipping_bad_count(_, _, _)
populate_from_skipping_bad_count(file_contents, i, results) ==
    IF i > Len(file_contents) THEN Returned(results)
    ELSE LET row == file_contents[i]
         IN  IF Len(row) < SpeciesToGenes_minimum_num_columns
             THEN populate_from_skipping_bad_count(file_contents, i + 1, results)
             ELSE IF int(row[3]).status = "raise"
             THEN populate_from_skipping_bad_count(file_contents, i + 1, results)
             ELSE IF Len(row) < 5 THEN RaisedList("IndexError")
             ELSE populate_from_skipping_bad_count(file_contents, i + 1,
                      Append(results,
                             SpeciesGenes(row[1], row[2], int(row[3]).value,
                                          row[5])))

RECURSIVE populate_from(_, _, _)
populate_from(file_contents, i, results) ==
    IF i > Len(file_contents) THEN Returned(results)
    ELSE LET row == file_contents[i]
         IN  IF Len(row) < SpeciesToGenes_minimum_num_columns
             THEN populate_from(file_contents, i + 1, results)
             ELSE IF int(row[3]).status = "raise" THEN RaisedList("ValueError")
             ELSE IF Len(row) < 5 THEN RaisedList("IndexError")
             ELSE populate_from(file_contents, i + 1,
                      Append(results,
                             SpeciesGenes(row[1], row[2], int(row[3]).value,
                                          row[5])))

populate(file) ==
    LET read == SpeciesToGenes_read_file_multi_delimiters(file)
    IN  IF read.status = "raise" THEN read
        ELSE populate_from(read.value, 1, <<>>)

\* the strings that the inputs use, in ascending order of their code points
\* (upper-case letters come before lower-case letters)
CodepointOrder ==
    <<"SpeciesX", "SpeciesY", "SpeciesZ", "db1", "db2", "geneA", "geneB",
      "geneC", "speciesx">>

\* a < b on strings
StrLess(a, b) ==
    \E i, j \in DOMAIN CodepointOrder :
        CodepointOrder[i] = a /\ CodepointOrder[j] = b /\ i < j

\* a sort that puts the greatest value first
RECURSIVE sorted_descending(_)
sorted_descending(values) ==
    IF values = {} THEN <<>>
    ELSE LET m == CHOOSE m \in values : \A v \in values \ {m} : StrLess(v, m)
         IN  <<m>> \o sorted_descending(values \ {m})

\* sorted(list(set(...))): the distinct values, least first
RECURSIVE sorted(_)
sorted(values) ==
    IF values = {} THEN <<>>
    ELSE LET m == CHOOSE m \in values : \A v \in values \ {m} : StrLess(m, v)
         IN  <<m>> \o sorted(values \ {m})

all_species(species_to_genes) ==
    sorted({species_to_genes[i].species : i \in DOMAIN species_to_genes})

all_databases(species_to_genes) ==
    sorted({species_to_genes[i].database_name : i \in DOMAIN species_to_genes})

all_genes(species_to_genes) ==
    sorted({species_to_genes[i].gene : i \in DOMAIN species_to_genes})

\* sum([s.occurances for s in self.species_to_genes])
RECURSIVE sum_of_occurances(_)
sum_of_occurances(species_to_genes) ==
    IF species_to_genes = <<>> THEN 0
    ELSE Head(species_to_genes).occurances +
         sum_of_occurances(Tail(species_to_genes))

species_databases(species_to_genes, query) ==
    LET specific_species == SelectSeq(species_to_genes,
                                      LAMBDA s : s.species = query)
    IN  sorted({specific_species[i].database_name : i \in DOMAIN specific_species})

\* a query that matches the database only
filter_by_species_any_species(species_to_genes, query, db) ==
    SelectSeq(species_to_genes, LAMBDA s : s.database_name = db)

\* str.lower on the species names that the inputs use
lower(text) == IF text \in {"SpeciesX", "speciesx"} THEN "speciesx" ELSE text

\* a query that compares species names without regard to case
filter_by_species_ignoring_case(species_to_genes, query, db) ==
    SelectSeq(species_to_genes,
              LAMBDA s : lower(s.species) = lower(query) /\ s.database_name = db)

\* a query that matches the species only
filter_by_species_any_database(species_to_genes, query, db) ==
    SelectSeq(species_to_genes, LAMBDA s : s.species = query)

SpeciesToGenes_filter_by_species(species_to_genes, query, db) ==
    SelectSeq(species_to_genes,
              LAMBDA s : s.species = query /\ s.database_name = db)

-----------------------------------------------------------------------------
(* FilterResults.filter_by_species *)

RECURSIVE occurances_total(_, _, _)
occurances_total(species_genes, gene, i) ==
    IF i > Len(species_genes) THEN 0
    ELSE (IF species_genes[i].gene = gene THEN species_genes[i].occurances ELSE 0)
         + occurances_total(species_genes, gene, i + 1)

genes_to_occurances_summing(species_genes, minimum, i, dict) ==
    LET genes == {species_genes[k].gene : k \in DOMAIN species_genes}
        passing == {g \in genes : occurances_total(species_genes, g, 1) >= minimum}
    IN  [g \in passing |-> occurances_total(species_genes, g, 1)]

\* { g.gene: g.occurances for g in species_genes if g.occurances >= minimum }:
\* a later entry of a gene replaces the value of an earlier one
RECURSIVE genes_to_occurances(_, _, _, _)
genes_to_occurances(species_genes, minimum, i, dict) ==
    IF i > Len(species_genes) THEN dict
    ELSE LET g == species_genes[i]
         IN  IF g.occurances >= minimum
             THEN genes_to_occurances(species_genes, minimum, i + 1,
                                      (g.gene :> g.occurances) @@ dict)
             ELSE genes_to_occurances(species_genes, minimum, i + 1, dict)

\* a filter that walks the genes of the dict and collects each gene's records
RECURSIVE filtered_results_by_gene(_, _)
filtered_results_by_gene(all_results, dict) ==
    IF DOMAIN dict = {} THEN <<>>
    ELSE LET g == CHOOSE g \in DOMAIN dict : \A h \in DOMAIN dict : dict[g] >= dict[h]
         IN  SelectSeq(all_results, LAMBDA r : r.attrs["gene"] = g) \o
             filtered_results_by_gene(all_results,
                                      [h \in DOMAIN dict \ {g} |-> dict[h]])

\* [r for r in all_results if r.gene in species_genes_to_occurances]
filtered_results(all_results, dict) ==
    SelectSeq(all_results, LAMBDA r : r.attrs["gene"] \in DOMAIN dict)

FilterResults_filter_by_species(file, type, db_file, minimum, db, sp) ==
    LET all_results == get_results(file, type)
    IN  IF all_results.status = "raise" THEN all_results
        ELSE LET loaded == populate(db_file)
             IN  IF loaded.status = "raise" THEN loaded
                 ELSE Returned(
                        filtered_results(
                          all_results.value,
                          genes_to_occurances(
                            SpeciesToGenes_filter_by_species(loaded.value, sp, db),
                            minimum, 1, <<>>)))

-----------------------------------------------------------------------------
(* SummaryResult and Summary.aggregate_results *)

SummaryResult(gene_name, occurances) ==
    [gene_name |-> gene_name, occurances |-> occurances]

\* the position of gene_name among the keys of the dict, 0 if it is no key;
\* the dict keeps its keys in insertion order
KeyIndex(genename_to_summary, gene_name) ==
    IF \E k \in DOMAIN genename_to_summary :
           genename_to_summary[k].gene_name = gene_name
    THEN CHOOSE k \in DOMAIN genename_to_summary :
             genename_to_summary[k].gene_name = gene_name
    ELSE 0

\* an aggregation that assigns SummaryResult(gene, 1) also to a gene seen before
RECURSIVE aggregate_from_reassign(_, _, _)
aggregate_from_reassign(results, i, genename_to_summary) ==
    IF i > Len(results) THEN genename_to_summary
    ELSE LET gene == results[i].attrs["gene"]
             k == KeyIndex(genename_to_summary, gene)
         IN  IF k # 0
             THEN aggregate_from_reassign(results, i + 1,
                      [genename_to_summary EXCEPT ![k] = SummaryResult(gene, 1)])
             ELSE aggregate_from_reassign(results, i + 1,
                      Append(genename_to_summary, SummaryResult(gene, 1)))

RECURSIVE aggregate_from(_, _, _)
aggregate_from(results, i, genename_to_summary) ==
    IF i > Len(results) THEN genename_to_summary
    ELSE LET gene == results[i].attrs["gene"]
             k == KeyIndex(genename_to_summary, gene)
         IN  IF k # 0
             THEN aggregate_from(results, i + 1,
                      [genename_to_summary EXCEPT ![k].occurances = @ + 1])
             ELSE aggregate_from(results, i + 1,
                      Append(genename_to_summary, SummaryResult(gene, 1)))

\* the values of the returned dict, in key order
aggregate_results(results) == aggregate_from(results, 1, <<>>)

-----------------------------------------------------------------------------
(* Filtering: filter_by_species on a results file and a knowledge base,    *)
(* then the summary of the records it returned                             *)

MaxFilterRows == 3

MaxKbRows == 2

KbHeader == <<"species", "gene", "count", "source", "database", "method", "date">>

\* a row as SpeciesDatabase.output_genes_to_freq_file writes it
KbRow(sp, gene, count, db) == <<sp, gene, count, "abricate", db, "auto", "20191008">>

KbRows ==
    {KbRow("SpeciesX", "geneA", "5", "db1"), KbRow("SpeciesX", "geneB", "1", "db1"),
     KbRow("SpeciesX", "geneB", "3", "db1"), KbRow("SpeciesY", "geneC", "5", "db2")}

Species == {"SpeciesX", "SpeciesY"}

FilterDialects == {"Abricate097"}

\* full rows, one naming each gene
FullRows(d) == {DataRow(d, Len(default_header(d)), g) : g \in Genes}

\* full rows and a row one field short of the dialect's minimum
FullAndShortRows(d) ==
    {DataRow(d, Len(default_header(d)), g) : g \in {"geneA", "geneB"}} \cup
    {DataRow(d, minimum_num_columns(d) - 1, "geneA")}

\* the entries that decide geneA and geneB for SpeciesX
CoreKbRows ==
    {KbRow("SpeciesX", "geneA", "5", "db1"), KbRow("SpeciesX", "geneB", "1", "db1")}

\* knowledge bases with duplicate entries: two counts below the threshold
\* that add up to more, and a count below with a count above in both orders
DuplicateKbs ==
    {<<KbRow("SpeciesX", "geneA", "2", "db1"), KbRow("SpeciesX", "geneA", "2", "db1")>>,
     <<KbRow("SpeciesX", "geneB", "1", "db1"), KbRow("SpeciesX", "geneB", "5", "db1")>>,
     <<KbRow("SpeciesX", "geneB", "5", "db1"), KbRow("SpeciesX", "geneB", "1", "db1")>>,
     <<KbRow("SpeciesX", "geneA", "2", "db1"), KbRow("SpeciesX", "geneB", "5", "db1"),
       KbRow("SpeciesX", "geneA", "2", "db1"), KbRow("SpeciesX", "geneB", "1", "db1")>>}

\* files of full rows against every knowledge base, files that hold short
\* rows against the knowledge bases of the core entries, and files of full
\* rows against the knowledge bases with duplicate entries
InitFilter ==
    /\ \E d \in FilterDialects :
         \/ \E rows \in RowLists(FullRows(d), MaxFilterRows) :
              \E entries \in RowLists(KbRows, MaxKbRows) :
                 /\ input_file = <<default_header(d)>> \o rows
                 /\ database_file = <<KbHeader>> \o entries
         \/ \E rows \in RowLists(FullAndShortRows(d), MaxFilterRows) :
              \E entries \in RowLists(CoreKbRows, MaxKbRows) :
                 /\ input_file = <<default_header(d)>> \o rows
                 /\ database_file = <<KbHeader>> \o entries
         \/ \E rows \in RowLists(FullRows(d), MaxFilterRows) :
              \E entries \in DuplicateKbs :
                 /\ input_file = <<default_header(d)>> \o rows
                 /\ database_file = <<KbHeader>> \o entries
    /\ results_type = None
    /\ database_name = "db1"
    /\ minimum_occurances = 3
    /\ pc = "ready"
    /\ consulted = <<>>
    /\ species = None
    /\ ret = NoCall
    /\ summary = NoCall
    /\ NoRun

FilterBySpecies(sp) ==
    /\ pc = "ready"
    /\ species' = sp
    /\ ret' = FilterResults_filter_by_species(input_file, results_type,
                  database_file, minimum_occurances, database_name, sp)
    /\ pc' = "filtered"
    /\ UNCHANGED <<inputs, others, outputs, consulted, summary>>

\* Summary(results, verbose).aggregate_results() on the filtered records
AggregateResults ==
    /\ pc = "filtered"
    /\ ret.status = "ok"
    /\ summary' = Returned(aggregate_results(ret.value))
    /\ pc' = "summarised"
    /\ UNCHANGED <<inputs, others, outputs, consulted, species, ret>>

NextFilter ==
    \/ \E sp \in Species : FilterBySpecies(sp)
    \/ AggregateResults

SpecFilter == InitFilter /\ [][NextFilter]_vars

-----------------------------------------------------------------------------
(* The knowledge base: SpeciesToGenes is constructed on a file and queried *)

MaxLoadRows == 3

\* rows as the builder writes them (one with a species name in lower case,
\* one with count 0), rows with a count that is negative or no integer, and
\* rows of 0, 2, 3 and 4 fields
LoadRows ==
    {KbRow("SpeciesX", "geneA", "5", "db1"), KbRow("speciesx", "geneB", "2", "db1"),
     KbRow("SpeciesY", "geneC", "0", "db2"), KbRow("SpeciesY", "geneA", "-1", "db1"),
     KbRow("SpeciesX", "geneB", "5.0", "db1"),
     <<>>, <<"SpeciesX", "geneA">>, <<"SpeciesX", "geneA", "5">>,
     <<"SpeciesX", "geneA", "3", "abricate">>}

QuerySpecies == {"SpeciesX", "SpeciesY", "SpeciesZ", "speciesx"}

QueryDatabases == {"db1", "db2"}

Answered(query, v) == [status |-> "ok", value |-> v, error |-> "", query |-> query]

InitLoad ==
    /\ \E rows \in RowLists(LoadRows, MaxLoadRows) :
           database_file = <<KbHeader>> \o rows
    /\ input_file = <<>>
    /\ results_type = None
    /\ database_name = None
    /\ minimum_occurances = 0
    /\ pc = "new"
    /\ consulted = <<>>
    /\ species = None
    /\ ret = NoCall
    /\ summary = NoCall
    /\ NoRun

\* SpeciesToGenes(database_file, verbose): the constructor populates
\* species_to_genes or lets the exception of populate pass
Load ==
    /\ pc = "new"
    /\ ret' = populate(database_file)
    /\ pc' = IF ret'.status = "ok" THEN "loaded" ELSE "failed"
    /\ UNCHANGED <<inputs, others, outputs, consulted, species, summary>>

\* a query on the constructed object
Query(name, v) ==
    /\ pc = "loaded"
    /\ answer' = Answered(name, v)
    /\ UNCHANGED <<inputs, others, pc, consulted, species, ret, summary, self_species,
                   processed, output_content, output_file, stdout, summary_file,
                   files_on_disk>>

QueryFilterBySpecies ==
    \E sp \in QuerySpecies, db \in QueryDatabases :
        Query(<<"filter_by_species", sp, db>>,
              SpeciesToGenes_filter_by_species(ret.value, sp, db))

QueryAllSpecies == Query(<<"all_species">>, all_species(ret.value))

QueryAllDatabases == Query(<<"all_databases">>, all_databases(ret.value))

QueryAllGenes == Query(<<"all_genes">>, all_genes(ret.value))

QuerySumOfOccurances == Query(<<"sum_of_occurances">>, sum_of_occurances(ret.value))

QuerySpeciesDatabases ==
    \E sp \in QuerySpecies :
        Query(<<"species_databases", sp>>, species_databases(ret.value, sp))

NextLoad ==
    \/ Load
    \/ QueryFilterBySpecies
    \/ QueryAllSpecies
    \/ QueryAllDatabases
    \/ QueryAllGenes
    \/ QuerySumOfOccurances
    \/ QuerySpeciesDatabases

SpecLoad == InitLoad /\ [][NextLoad]_vars

-----------------------------------------------------------------------------
(* Scagaire.run: every species of the list is looked up, filtered,         *)
(* summarised and written out                                              *)

\* SummaryResult.__str__
SummaryResult_str(g) == join("\t", <<g.gene_name, ToString(g.occurances)>>)

\* the lines that output_summary writes
summary_lines(results, spec) ==
    LET output_gene_occurances ==
            [k \in DOMAIN aggregate_results(results) |->
                SummaryResult_str(aggregate_results(results)[k])]
    IN  IF Len(results) > 0
        THEN [k \in DOMAIN output_gene_occurances |->
                 spec \o "\t" \o output_gene_occurances[k]]
        ELSE <<spec \o "\t" \o "no_results\t0">>

\* an output_summary that opens the summary file for writing, not appending
output_summary_overwriting(file, results, spec) ==
    IF file = None THEN RaisedList("TypeError")
    ELSE Returned(summary_lines(results, spec))

\* output_summary(results, species) on a summary file: the lines of the file
\* afterwards; open(None, "a+") raises TypeError
output_summary(file, results, spec) ==
    IF file = None THEN RaisedList("TypeError")
    ELSE Returned(file \o summary_lines(results, spec))

\* the lines of "\n".join(lines) + "\n": one empty line when nothing is joined
content_lines(lines) == IF lines = <<>> THEN <<"">> ELSE lines

\* the header line of a species' block
header_line(results) ==
    IF Len(results) > 0 THEN join("\t", result_header(results[1]))
    ELSE "No results"

separator(spec) == <<"Results for species:\t" \o spec, "=======================">>

file_block_separator_last(all_species_of_run, spec, results, lines) ==
    <<header_line(results)>> \o content_lines(lines)
        \o (IF Len(all_species_of_run) > 1 THEN separator(spec) ELSE <<>>)

\* what is written to the output file for one species
file_block(all_species_of_run, spec, results, lines) ==
    (IF Len(all_species_of_run) > 1 THEN separator(spec) ELSE <<>>)
        \o <<header_line(results)>> \o content_lines(lines)

\* what is printed for one species when no output file is given
console_block(spec, results, lines) ==
    separator(spec) \o <<header_line(results)>> \o content_lines(lines)

RunKbs ==
    {<<KbRow("SpeciesX", "geneA", "5", "db1")>>,
     <<KbRow("SpeciesX", "geneB", "1", "db1"), KbRow("SpeciesY", "geneC", "5", "db2")>>,
     <<KbRow("SpeciesX", "geneA", "5", "db1"), KbRow("SpeciesX", "geneB", "3", "db1"),
       KbRow("SpeciesY", "geneC", "5", "db2")>>,
     <<KbRow("SpeciesX", "geneA", "5", "db1"), KbRow("SpeciesX", "geneB", "5.0", "db1")>>}

RunSpecies ==
    {<<"SpeciesX">>, <<"SpeciesY">>, <<"SpeciesZ">>, <<"SpeciesX", "SpeciesY">>,
     <<"SpeciesY", "SpeciesX">>, <<"SpeciesX", "SpeciesZ">>,
     <<"SpeciesZ", "SpeciesX">>, <<"SpeciesX", "SpeciesX">>}

\* full rows naming geneA and geneB, a short row and a row one field too long
RunRows(d) ==
    FullAndShortRows(d) \cup {DataRow(d, Len(default_header(d)) + 1, "geneA")}

InitRun ==
    /\ \E d \in FilterDialects :
         \E rows \in RowLists(RunRows(d), MaxRows) :
             input_file = <<default_header(d)>> \o rows
    /\ \E entries \in RunKbs : database_file = <<KbHeader>> \o entries
    /\ self_species \in RunSpecies
    /\ output_file \in {None, <<>>}
    /\ summary_file \in {None, <<>>}
    /\ results_type = None
    /\ database_name = "db1"
    /\ minimum_occurances = 3
    /\ pc = "run"
    /\ consulted = <<>>
    /\ species = None
    /\ ret = NoCall
    /\ summary = NoCall
    /\ processed = 0
    /\ output_content = NoCall
    /\ stdout = <<>>
    /\ answer = NoCall
    /\ options = NoOptions
    /\ files_on_disk = {}
    /\ NoOthers

\* filter_results = FilterResults(...); sg = SpeciesToGenes(database_file)
StartRun ==
    /\ pc = "run"
    /\ LET sg == populate(database_file)
       IN  IF sg.status = "raise"
           THEN pc' = "raised" /\ ret' = sg
           ELSE pc' = "loop" /\ UNCHANGED ret
    /\ UNCHANGED <<inputs, others, outputs, consulted, species, summary>>

SpeciesNotFound_skipping ==
    /\ pc = "loop"
    /\ processed < Len(self_species)
    /\ self_species[processed + 1]
           \notin Range(all_species(populate(database_file).value))
    /\ stdout' = Append(stdout,
                        "Error: Species not found in database so nothing to do")
    /\ processed' = processed + 1
    /\ UNCHANGED <<inputs, others, pc, consulted, species, ret, summary, self_species,
                   output_content, output_file, summary_file, answer,
                   files_on_disk>>

\* if spec not in sg.all_species(): print the error and return
SpeciesNotFound ==
    /\ pc = "loop"
    /\ processed < Len(self_species)
    /\ self_species[processed + 1]
           \notin Range(all_species(populate(database_file).value))
    /\ stdout' = Append(stdout,
                        "Error: Species not found in database so nothing to do")
    /\ pc' = "returned"
    /\ UNCHANGED <<inputs, others, consulted, species, ret, summary, self_species,
                   processed, output_content, output_file, summary_file, answer,
                   files_on_disk>>

\* the rest of a pass, from the outcomes of its three calls: the filter, the
\* summary and the rendering of the records
WriteSpecies(spec, results, written, lines) ==
    IF results.status = "raise"
    THEN /\ ret' = results
         /\ pc' = "raised"
         /\ UNCHANGED <<summary, summary_file, output_content, output_file,
                        stdout, processed, files_on_disk>>
    ELSE IF written.status = "raise"
    THEN /\ ret' = written
         /\ summary' = Returned(aggregate_results(results.value))
         /\ pc' = "raised"
         /\ UNCHANGED <<summary_file, output_content, output_file, stdout,
                        processed, files_on_disk>>
    ELSE IF lines.status = "raise"
    THEN /\ ret' = lines
         /\ summary' = Returned(aggregate_results(results.value))
         /\ summary_file' = written.value
         /\ output_content' = lines
         /\ files_on_disk' = files_on_disk \cup {"summary_file"}
         /\ pc' = "raised"
         /\ UNCHANGED <<output_file, stdout, processed>>
    ELSE /\ ret' = results
         /\ summary' = Returned(aggregate_results(results.value))
         /\ summary_file' = written.value
         /\ output_content' = lines
         /\ IF output_file # None
            THEN /\ output_file' = output_file \o
                        file_block(self_species, spec, results.value, lines.value)
                 /\ files_on_disk' =
                        files_on_disk \cup {"summary_file", "output_file"}
                 /\ UNCHANGED stdout
            ELSE /\ stdout' = stdout \o
                        console_block(spec, results.value, lines.value)
                 /\ files_on_disk' = files_on_disk \cup {"summary_file"}
                 /\ UNCHANGED output_file
         /\ processed' = processed + 1
         /\ UNCHANGED pc

\* the pass after filter_by_species: output_summary, then the rendering
SummariseSpecies(spec, results) ==
    WriteSpecies(spec, results,
                 output_summary(summary_file, results.value, spec),
                 render(results.value))

\* one pass of the loop for a species of the knowledge base
ProcessSpecies ==
    /\ pc = "loop"
    /\ processed < Len(self_species)
    /\ self_species[processed + 1]
           \in Range(all_species(populate(database_file).value))
    /\ species' = self_species[processed + 1]
    /\ SummariseSpecies(self_species[processed + 1],
           FilterResults_filter_by_species(input_file, results_type,
               database_file, minimum_occurances, database_name,
               self_species[processed + 1]))
    /\ UNCHANGED <<inputs, others, consulted, self_species, answer>>

\* the loop has run through the list
FinishRun ==
    /\ pc = "loop"
    /\ processed = Len(self_species)
    /\ pc' = "returned"
    /\ UNCHANGED <<inputs, others, outputs, consulted, species, ret, summary>>

NextRun ==
    \/ StartRun
    \/ SpeciesNotFound
    \/ ProcessSpecies
    \/ FinishRun

SpecRun == InitRun /\ [][NextRun]_vars

-----------------------------------------------------------------------------
(* Scagaire: construction from the command-line options, then run *)

\* Config.taxon_categories() of a configuration with one category
taxon_categories == [c \in {"skin"} |-> <<"SpeciesX", "SpeciesY">>]

\* parse_species on the fields of species_str.split(","): a category is
\* replaced by its species, in place
RECURSIVE parse_species(_)
parse_species(split_species_str) ==
    IF split_species_str = <<>> THEN <<>>
    ELSE (IF Head(split_species_str) \in DOMAIN taxon_categories
          THEN taxon_categories[Head(split_species_str)]
          ELSE <<Head(split_species_str)>>)
         \o parse_species(Tail(split_species_str))

MaxSpecies == 2

\* the fields of the --species option: species of the knowledge bases, a
\* species of none and a category
SpeciesFields == {"SpeciesX", "SpeciesY", "SpeciesZ", "skin"}

SpeciesOptions ==
    UNION {[1..n -> SpeciesFields] : n \in 1..MaxSpecies}

\* the results files of the runs: no row, two genes in both orders with a
\* short row, one gene twice
ScagaireRows(d) ==
    {<<>>,
     <<DataRow(d, Len(default_header(d)), "geneA"),
       DataRow(d, Len(default_header(d)), "geneB")>>,
     <<DataRow(d, Len(default_header(d)), "geneB"),
       DataRow(d, minimum_num_columns(d) - 1, "geneA"),
       DataRow(d, Len(default_header(d)), "geneA")>>,
     <<DataRow(d, Len(default_header(d)), "geneA"),
       DataRow(d, Len(default_header(d)), "geneA")>>}

\* what a file that exists before construction holds
EarlierContent == <<"earlier content">>

\* output file, summary file and which of them exist: None is no path
EarlierFiles ==
    <<<<None, <<>>, {}>>,
      <<<<>>, <<>>, {}>>,
      <<EarlierContent, <<>>, {"output_file"}>>,
      <<<<>>, EarlierContent, {"summary_file"}>>,
      <<EarlierContent, EarlierContent, {"output_file", "summary_file"}>>,
      <<None, EarlierContent, {"summary_file"}>>>>

InitScagaire ==
    /\ \E d \in FilterDialects :
         \E rows \in ScagaireRows(d) :
             input_file = <<default_header(d)>> \o rows
    /\ \E entries \in RunKbs : database_file = <<KbHeader>> \o entries
    /\ options \in [species : SpeciesOptions, overwrite_files : BOOLEAN]
    /\ \E f \in DOMAIN EarlierFiles :
         /\ output_file = EarlierFiles[f][1]
         /\ summary_file = EarlierFiles[f][2]
         /\ files_on_disk = EarlierFiles[f][3]
    /\ self_species = <<>>
    /\ results_type = None
    /\ database_name = "db1"
    /\ minimum_occurances = 3
    /\ pc = "init"
    /\ consulted = <<>>
    /\ species = None
    /\ ret = NoCall
    /\ summary = NoCall
    /\ processed = 0
    /\ output_content = NoCall
    /\ stdout = <<>>
    /\ answer = NoCall
    /\ NoOthers

removed_never(file, name) == file

\* os.remove of a path that exists: the file is gone
removed(file, name) == IF name \in files_on_disk THEN <<>> ELSE file

\* Scagaire.__init__: the species list, then the existing files
Construct ==
    /\ pc = "init"
    /\ self_species' = parse_species(options.species)
    /\ IF options.overwrite_files
       THEN /\ output_file' = removed(output_file, "output_file")
            /\ summary_file' = removed(summary_file, "summary_file")
            /\ files_on_disk' = {}
            /\ pc' = "run"
            /\ UNCHANGED ret
       ELSE IF "output_file" \in files_on_disk
       THEN /\ ret' = RaisedList("SystemExit: Output file already exists, please choose another filename.")
            /\ pc' = "exited"
            /\ UNCHANGED <<output_file, summary_file, files_on_disk>>
       ELSE IF "summary_file" \in files_on_disk
       THEN /\ ret' = RaisedList("SystemExit: Summary file already exists, please choose another filename.")
            /\ pc' = "exited"
            /\ UNCHANGED <<output_file, summary_file, files_on_disk>>
       ELSE /\ pc' = "run"
            /\ UNCHANGED <<ret, output_file, summary_file, files_on_disk>>
    /\ UNCHANGED <<inputs, others, consulted, species, summary, processed,
                   output_content, stdout, answer>>

NextScagaire ==
    \/ Construct
    \/ StartRun
    \/ SpeciesNotFound
    \/ ProcessSpecies
    \/ FinishRun

SpecScagaire == InitScagaire /\ [][NextScagaire]_vars

-----------------------------------------------------------------------------
(* ScagaireDownload: the database builder *)

\* gene_to_freq[gene] += 1 for a gene of the dict, gene_to_freq[gene] = 1 for
\* a new one; the dict is the list of its items in insertion order
count_gene(gene_to_freq, gene) ==
    IF \E k \in DOMAIN gene_to_freq : gene_to_freq[k].gene = gene
    THEN [k \in DOMAIN gene_to_freq |->
             IF gene_to_freq[k].gene = gene
             THEN [gene |-> gene, freq |-> gene_to_freq[k].freq + 1]
             ELSE gene_to_freq[k]]
    ELSE Append(gene_to_freq, [gene |-> gene, freq |-> 1])

\* for amr_result in amr_results: the results of one assembly, by gene name
RECURSIVE count_genes(_, _)
count_genes(gene_to_freq, amr_results) ==
    IF amr_results = <<>> THEN gene_to_freq
    ELSE count_genes(count_gene(gene_to_freq, Head(amr_results)),
                     Tail(amr_results))

RECURSIVE aggregate_amr_from(_, _)
aggregate_amr_from(gene_to_freq, values) ==
    IF values = <<>> THEN gene_to_freq
    ELSE aggregate_amr_from(count_genes(gene_to_freq, Head(values)),
                            Tail(values))

\* aggregate_amr_results(files_to_amr_results) on the values of the dict
aggregate_amr_results(files_to_amr_results) ==
    aggregate_amr_from(<<>>, files_to_amr_results)

\* get_amr_results on an assembly for which abricate and the parsing of its
\* output end as abricate: mkstemp creates temp_file, and os.remove is only
\* reached when neither check_output nor Abricate098 raises
get_amr_results(abricate, temp_file) ==
    [outcome |-> abricate,
     left |-> IF abricate.status = "raise" THEN {temp_file} ELSE {}]

\* the name mkstemp gives the file of the i-th assembly under a database
temp_name(database, i) == "tmp_" \o database \o "_" \o ToString(i)

\* amr_for_input_files: get_amr_results file by file; the first exception
\* ends the loop
RECURSIVE amr_for_input_files_from(_, _, _, _)
amr_for_input_files_from(assemblies, database, i, files_to_amr_results) ==
    IF i > Len(assemblies)
    THEN [outcome |-> Returned(files_to_amr_results), left |-> {}]
    ELSE LET amr == get_amr_results(assemblies[i], temp_name(database, i))
         IN  IF amr.outcome.status = "raise" THEN amr
             ELSE amr_for_input_files_from(assemblies, database, i + 1,
                      Append(files_to_amr_results, amr.outcome.value))

amr_for_input_files(assemblies, database) ==
    amr_for_input_files_from(assemblies, database, 1, <<>>)

\* the rows output_genes_to_freq_file writes for a dict, as their fields
output_genes_to_freq_file(sp, database, fixed_time, gene_to_freq) ==
    [k \in DOMAIN gene_to_freq |->
        <<sp, gene_to_freq[k].gene, ToString(gene_to_freq[k].freq),
          "abricate", database, "auto", fixed_time>>]

MaxAssemblies == 2

\* how abricate and the parsing of its output end for an assembly: results
\* by gene name (none, one, a gene twice, two genes), or an exception of the
\* command or of the parser
AbricateOutcomes ==
    {Returned(<<>>), Returned(<<"geneA">>), Returned(<<"geneA", "geneA">>),
     Returned(<<"geneB", "geneA">>), RaisedList("CalledProcessError"),
     RaisedList("Exception: Input file not in the correct format")}

AssemblyLists == UNION {[1..n -> AbricateOutcomes] : n \in 0..MaxAssemblies}

\* a builder after __init__: the output directory exists, and so does a
\* downloads directory that the user names
InitBuild ==
    /\ \E debug \in BOOLEAN, downloads_directory \in {None, "user_downloads"},
          abricate_database \in {<<"db1">>, <<"db1", "db2">>},
          assemblies \in AssemblyLists :
         builder = [pc |-> "new",
                    species |-> "SpeciesX",
                    debug |-> debug,
                    downloads_directory |-> downloads_directory,
                    abricate_database |-> abricate_database,
                    assemblies |-> assemblies,
                    disk |-> {"output_directory"} \cup
                             (IF downloads_directory = None THEN {}
                              ELSE {downloads_directory}),
                    directories_to_cleanup |-> <<>>,
                    download_directory |-> None,
                    next_database |-> 1,
                    files_to_amr_results |-> <<>>,
                    gene_to_freq |-> <<>>,
                    output_rows |-> <<>>,
                    error |-> "",
                    destroyed |-> FALSE]
    /\ NoPasses
    /\ Idle

\* run, to the assemblies: downloads_directory, or download_species(), which
\* registers its directory for cleanup before the download command runs
Download ==
    /\ builder.pc = "new"
    /\ ~builder.destroyed
    /\ IF builder.downloads_directory # None
       THEN builder' = [builder EXCEPT
                           !.download_directory = builder.downloads_directory,
                           !.pc = "found"]
       ELSE \E completed \in BOOLEAN :
                builder' = [builder EXCEPT
                    !.disk = @ \cup {"download_tmp"},
                    !.directories_to_cleanup = Append(@, "download_tmp"),
                    !.download_directory =
                        IF completed THEN "download_tmp" ELSE None,
                    !.error = IF completed THEN "" ELSE "CalledProcessError",
                    !.pc = IF completed THEN "found" ELSE "raised"]
    /\ UNCHANGED <<inputs, outputs, passes, pc, consulted, species, ret, summary>>

\* run, loop body: amr_for_input_files for the next database
AmrForInputFiles ==
    /\ builder.pc = "found"
    /\ ~builder.destroyed
    /\ LET amr == amr_for_input_files(builder.assemblies,
                      builder.abricate_database[builder.next_database])
       IN  builder' = [builder EXCEPT
               !.disk = @ \cup amr.left,
               !.files_to_amr_results = amr.outcome.value,
               !.error = amr.outcome.error,
               !.pc = IF amr.outcome.status = "raise" THEN "raised"
                      ELSE "scanned"]
    /\ UNCHANGED <<inputs, outputs, passes, pc, consulted, species, ret, summary>>

\* run, loop body: aggregate_amr_results, then output_genes_to_freq_file
\* appends to the output file
AggregateAndWrite ==
    /\ builder.pc = "scanned"
    /\ ~builder.destroyed
    /\ LET gene_to_freq == aggregate_amr_results(builder.files_to_amr_results)
       IN  builder' = [builder EXCEPT
               !.gene_to_freq = gene_to_freq,
               !.output_rows = @ \o output_genes_to_freq_file(builder.species,
                                   builder.abricate_database[builder.next_database],
                                   "20191008", gene_to_freq),
               !.disk = @ \cup {"output_file"},
               !.next_database = @ + 1,
               !.pc = IF builder.next_database < Len(builder.abricate_database)
                      THEN "found" ELSE "done"]
    /\ UNCHANGED <<inputs, outputs, passes, pc, consulted, species, ret, summary>>

Destroy_of_download_directory ==
    /\ builder.pc \in {"new", "raised", "done", "loaded"}
    /\ ~builder.destroyed
    /\ builder' = [builder EXCEPT
           !.disk = IF builder.debug THEN @
                    ELSE @ \ {builder.download_directory},
           !.destroyed = TRUE]
    /\ UNCHANGED <<inputs, outputs, passes, pc, consulted, species, ret, summary>>

\* __del__, before run, after it returned or after it raised
Destroy ==
    /\ builder.pc \in {"new", "raised", "done", "loaded"}
    /\ ~builder.destroyed
    /\ builder' = [builder EXCEPT
           !.disk = IF builder.debug THEN @
                    ELSE @ \ Range(builder.directories_to_cleanup),
           !.destroyed = TRUE]
    /\ UNCHANGED <<inputs, outputs, passes, pc, consulted, species, ret, summary>>

\* SpeciesToGenes on the output file of a finished build
LoadOutputFile ==
    /\ builder.pc = "done"
    /\ ret' = populate(builder.output_rows)
    /\ builder' = [builder EXCEPT !.pc = "loaded"]
    /\ UNCHANGED <<inputs, outputs, passes, pc, consulted, species, summary>>

NextBuild ==
    \/ Download
    \/ AmrForInputFiles
    \/ AggregateAndWrite
    \/ Destroy
    \/ LoadOutputFile

SpecBuild == InitBuild /\ [][NextBuild]_vars

-----------------------------------------------------------------------------
(* Calls of FilterResults.filter_by_species in progress at the same time *)

MaxPasses == 2

PassIds == 1..MaxPasses

PassSpecies == {"SpeciesX", "SpeciesY"}

\* knowledge bases in which the two species differ, and one that does not load
PassKbs ==
    {<<KbRow("SpeciesX", "geneA", "5", "db1"), KbRow("SpeciesY", "geneB", "5", "db1")>>,
     <<KbRow("SpeciesX", "geneA", "5", "db1"), KbRow("SpeciesX", "geneB", "3", "db1"),
       KbRow("SpeciesY", "geneC", "5", "db2")>>,
     <<KbRow("SpeciesX", "geneA", "5", "db1"), KbRow("SpeciesX", "geneB", "5.0", "db1")>>}

\* the local variables of a call that has not begun
NoLocals ==
    [pc |-> "idle", species |-> None, all_results |-> <<>>,
     species_genes |-> <<>>, species_genes_to_occurances |-> <<>>,
     ret |-> NoCall]

InitPasses ==
    /\ \E d \in FilterDialects :
         \E rows \in ScagaireRows(d) :
             input_file = <<default_header(d)>> \o rows
    /\ \E entries \in PassKbs : database_file = <<KbHeader>> \o entries
    /\ results_type = None
    /\ database_name = "db1"
    /\ minimum_occurances = 3
    /\ passes = [p \in PassIds |-> NoLocals]
    /\ pc = "passes"
    /\ consulted = <<>>
    /\ species = None
    /\ ret = NoCall
    /\ summary = NoCall
    /\ NoBuilder
    /\ self_species = <<>>
    /\ processed = 0
    /\ output_content = NoCall
    /\ output_file = None
    /\ stdout = <<>>
    /\ summary_file = <<>>
    /\ answer = NoCall
    /\ options = NoOptions
    /\ files_on_disk = {}

\* what a step of a call leaves alone
PassFrame == UNCHANGED <<inputs, outputs, builder, pc, consulted, ret, summary>>

\* filter_by_species(species) is called: species is the argument of call p
BeginPass(p, sp) ==
    /\ passes[p].pc = "idle"
    /\ passes' = [passes EXCEPT ![p].pc = "called", ![p].species = sp]
    /\ species' = sp
    /\ PassFrame

\* all_results = IdentifyResults(...).get_results()
ParseResults(p) ==
    /\ passes[p].pc = "called"
    /\ LET all_results == get_results(input_file, results_type)
       IN  passes' = IF all_results.status = "raise"
                     THEN [passes EXCEPT ![p].pc = "raised", ![p].ret = all_results]
                     ELSE [passes EXCEPT ![p].pc = "parsed",
                                         ![p].all_results = all_results.value]
    /\ UNCHANGED species
    /\ PassFrame

LoadSpeciesGenes_from_field(p) ==
    /\ passes[p].pc = "parsed"
    /\ LET loaded == populate(database_file)
       IN  passes' = IF loaded.status = "raise"
                     THEN [passes EXCEPT ![p].pc = "raised", ![p].ret = loaded]
                     ELSE [passes EXCEPT ![p].pc = "loaded",
                              ![p].species_genes =
                                  SpeciesToGenes_filter_by_species(loaded.value,
                                      species, database_name)]
    /\ UNCHANGED species
    /\ PassFrame

\* species_genes = SpeciesToGenes(...).filter_by_species(species, database_name)
LoadSpeciesGenes(p) ==
    /\ passes[p].pc = "parsed"
    /\ LET loaded == populate(database_file)
       IN  passes' = IF loaded.status = "raise"
                     THEN [passes EXCEPT ![p].pc = "raised", ![p].ret = loaded]
                     ELSE [passes EXCEPT ![p].pc = "loaded",
                              ![p].species_genes =
                                  SpeciesToGenes_filter_by_species(loaded.value,
                                      passes[p].species, database_name)]
    /\ UNCHANGED species
    /\ PassFrame

\* species_genes_to_occurances = { ... }
BuildDict(p) ==
    /\ passes[p].pc = "loaded"
    /\ passes' = [passes EXCEPT ![p].pc = "dict",
                      ![p].species_genes_to_occurances =
                          genes_to_occurances(passes[p].species_genes,
                                              minimum_occurances, 1, <<>>)]
    /\ UNCHANGED species
    /\ PassFrame

\* filtered_results = [...]; return filtered_results
ReturnFiltered(p) ==
    /\ passes[p].pc = "dict"
    /\ passes' = [passes EXCEPT ![p].pc = "done",
                      ![p].ret = Returned(filtered_results(passes[p].all_results,
                                     passes[p].species_genes_to_occurances))]
    /\ UNCHANGED species
    /\ PassFrame

NextPasses ==
    \/ \E p \in PassIds, sp \in PassSpecies : BeginPass(p, sp)
    \/ \E p \in PassIds : ParseResults(p)
    \/ \E p \in PassIds : LoadSpeciesGenes(p)
    \/ \E p \in PassIds : BuildDict(p)
    \/ \E p \in PassIds : ReturnFiltered(p)

SpecPasses == InitPasses /\ [][NextPasses]_vars

-----------------------------------------------------------------------------
(* ScagaireCompare: the genes two species share *)

\* the line of a species1 entry s against the species2 entry s2
compare_line(s, s2) ==
    join("\t", <<s.gene, s.species, ToString(s.occurances), s2.species,
                 ToString(s2.occurances)>>)

compare_last_match(db_file, species1, species2, database_filter) ==
    LET sg == populate(db_file)
    IN  IF sg.status = "raise" THEN sg
        ELSE LET s1 == SpeciesToGenes_filter_by_species(sg.value, species1,
                                                        database_filter)
                 s2 == SpeciesToGenes_filter_by_species(sg.value, species2,
                                                        database_filter)
                 f1 == SelectSeq(s1, LAMBDA s : \E k \in DOMAIN s2 : s2[k].gene = s.gene)
                 f2 == SelectSeq(s2, LAMBDA s : \E k \in DOMAIN s1 : s1[k].gene = s.gene)
             IN  Returned([k \in DOMAIN f1 |->
                     LET matching_species ==
                             SelectSeq(f2, LAMBDA t : t.gene = f1[k].gene)
                     IN  compare_line(f1[k],
                             matching_species[Len(matching_species)])])

\* compare(): the lines it prints, or the exception of the load
ScagaireCompare_compare(db_file, species1, species2, database_filter) ==
    LET sg == populate(db_file)
    IN  IF sg.status = "raise" THEN sg
        ELSE LET species1_species_to_genes ==
                     SpeciesToGenes_filter_by_species(sg.value, species1,
                                                      database_filter)
                 species2_species_to_genes ==
                     SpeciesToGenes_filter_by_species(sg.value, species2,
                                                      database_filter)
                 species1_gene_names ==
                     {species1_species_to_genes[k].gene :
                          k \in DOMAIN species1_species_to_genes}
                 species2_gene_names ==
                     {species2_species_to_genes[k].gene :
                          k \in DOMAIN species2_species_to_genes}
                 filtered_species1_species_to_genes ==
                     SelectSeq(species1_species_to_genes,
                               LAMBDA s : s.gene \in species2_gene_names)
                 filtered_species2_species_to_genes ==
                     SelectSeq(species2_species_to_genes,
                               LAMBDA s : s.gene \in species1_gene_names)
             IN  Returned([k \in DOMAIN filtered_species1_species_to_genes |->
                     LET s == filtered_species1_species_to_genes[k]
                         matching_species ==
                             SelectSeq(filtered_species2_species_to_genes,
                                       LAMBDA s2 : s.gene = s2.gene)
                     IN  compare_line(s, matching_species[1])])

MaxCompareRows == 3

\* entries of two species with shared and unshared genes, duplicates of a
\* gene with different counts, another database, and a count that is no
\* integer
CompareRows ==
    {KbRow("SpeciesX", "geneA", "5", "db1"), KbRow("SpeciesX", "geneA", "1", "db1"),
     KbRow("SpeciesX", "geneB", "1", "db1"), KbRow("SpeciesY", "geneA", "2", "db1"),
     KbRow("SpeciesY", "geneA", "3", "db1"), KbRow("SpeciesY", "geneB", "4", "db2"),
     KbRow("SpeciesX", "geneB", "5.0", "db1")}

CompareSpecies == {"SpeciesX", "SpeciesY", "SpeciesZ"}

InitCompare ==
    /\ \E rows \in RowLists(CompareRows, MaxCompareRows) :
           database_file = <<KbHeader>> \o rows
    /\ options \in [species1 : CompareSpecies, species2 : CompareSpecies,
                    database_filter : QueryDatabases]
    /\ input_file = <<>>
    /\ results_type = None
    /\ database_name = None
    /\ minimum_occurances = 0
    /\ pc = "new"
    /\ consulted = <<>>
    /\ species = None
    /\ ret = NoCall
    /\ summary = NoCall
    /\ self_species = <<>>
    /\ processed = 0
    /\ output_content = NoCall
    /\ output_file = None
    /\ stdout = <<>>
    /\ summary_file = <<>>
    /\ answer = NoCall
    /\ files_on_disk = {}
    /\ NoOthers

\* ScagaireCompare(options).compare()
Compare ==
    /\ pc = "new"
    /\ ret' = ScagaireCompare_compare(database_file, options.species1,
                                      options.species2, options.database_filter)
    /\ stdout' = stdout \o ret'.value
    /\ pc' = IF ret'.status = "raise" THEN "raised" ELSE "compared"
    /\ UNCHANGED <<inputs, others, consulted, species, summary, self_species,
                   processed, output_content, output_file, summary_file,
                   answer, files_on_disk>>

NextCompare == Compare

SpecCompare == InitCompare /\ [][NextCompare]_vars

-----------------------------------------------------------------------------
(* Claims on header validation (SpecValidate) *)

file_header == get_header(input_file)

Count(s, c) == Cardinality({i \in DOMAIN s : s[i] = c})

\* h holds the columns of g, each as often as g does, in another order
NonIdentityPermutation(h, g) ==
    /\ Len(h) = Len(g)
    /\ \A c \in Range(h) \cup Range(g) : Count(h, c) = Count(g, c)
    /\ h # g

\* C6: is_valid returns true if and only if the file's header equals the
\* dialect's expected header exactly, in column count and position by position;
\* an empty header or a proper prefix of the expected header is rejected.
C6_ValidIffExactHeader ==
    pc = "validated" =>
        /\ ret.status = "ok"
        /\ ret.value <=> (file_header = default_header(consulted[1]))

\* C7: for each dialect, a header that holds all of the expected column names
\* in a different order (a non-identity permutation of the expected header)
\* fails is_valid.
C7_PermutedHeaderInvalid ==
    (pc = "validated" /\
     NonIdentityPermutation(file_header, default_header(consulted[1])))
        => ret = Returned(FALSE)

\* C7 witness: a header whose last two columns are exchanged, so that all
\* columns before them agree with the expected header, has been rejected
C7_Witness ==
    /\ pc = "validated"
    /\ NonIdentityPermutation(file_header, default_header(consulted[1]))
    /\ file_header[1] = default_header(consulted[1])[1]
    /\ file_header[Len(file_header)] # default_header(consulted[1])[Len(file_header)]
    /\ ret = Returned(FALSE)

-----------------------------------------------------------------------------
(* Claims on format detection (SpecDetect) *)

ClaimedOrder == <<"Abricate098", "Abricate097", "Staramr", "Rgi">>

HeaderValidates(d) ==
    LET v == is_valid(d, file_header) IN v.status = "ok" /\ v.value

\* the dialect that each type hint selects in the code
HintSelects(d) ==
    \/ d = "Abricate097" /\ results_type = "abricate"
    \/ d = "Staramr" /\ results_type = "staramr"
    \/ d = "Rgi" /\ results_type = "rgi"

\* the dialects a type hint names: 'abricate' names both Abricate dialects
HintNames(d) ==
    \/ d \in {"Abricate098", "Abricate097"} /\ results_type = "abricate"
    \/ d = "Staramr" /\ results_type = "staramr"
    \/ d = "Rgi" /\ results_type = "rgi"

\* get_results has returned the records of the first dialect of ClaimedOrder
\* that satisfies Chosen, having constructed the parsers up to it and no other,
\* or no records after constructing all four when none satisfies it
ReturnsFirst(Chosen(_)) ==
    LET S == {k \in 1..Len(ClaimedOrder) : Chosen(ClaimedOrder[k])}
    IN  IF S = {}
        THEN ret.value = <<>> /\ consulted = ClaimedOrder
        ELSE LET k == CHOOSE k \in S : \A j \in S : k <= j
             IN  /\ ret.value = Parser(ClaimedOrder[k], input_file).results
                 /\ consulted = SubSeq(ClaimedOrder, 1, k)

ValidatesOrNamed(d) == HeaderValidates(d) \/ HintNames(d)

ValidatesOrSelected(d) == HeaderValidates(d) \/ HintSelects(d)

\* C3 (as claimed): get_results returns the records of the first dialect, in
\* the order AbricateCurrent, AbricateLegacy, StarAmr, Rgi, whose header
\* validation succeeds or which the type hint names, a hint that names
\* AbricateCurrent included; later dialects are not consulted.
C3_FirstValidOrNamed ==
    (pc = "done" /\ ret.status = "ok") => ReturnsFirst(ValidatesOrNamed)

\* C3 (amended): whenever get_results returns, it returns the records of the
\* first dialect in that order whose is_valid succeeds or, for AbricateLegacy,
\* StarAmr and Rgi only, which the hint ('abricate', 'staramr', 'rgi')
\* selects; AbricateCurrent is selected by header validation alone; the
\* parsers after the selected one are not constructed.
C3_FirstValidOrSelected ==
    (pc = "done" /\ ret.status = "ok") => ReturnsFirst(ValidatesOrSelected)

\* C3 witness: the hint 'abricate' selected AbricateLegacy for a file whose
\* header validates for neither Abricate dialect, and records were returned
C3_Witness ==
    /\ pc = "done"
    /\ ret.status = "ok"
    /\ results_type = "abricate"
    /\ ~HeaderValidates("Abricate098")
    /\ ~HeaderValidates("Abricate097")
    /\ consulted = <<"Abricate098", "Abricate097">>
    /\ ret.value # <<>>

HintedDialect == CHOOSE d \in Dialects : HintSelects(d)

EarlierValid ==
    {k \in 1..Len(ClaimedOrder) :
        /\ HeaderValidates(ClaimedOrder[k])
        /\ \E j \in k + 1..Len(ClaimedOrder) : ClaimedOrder[j] = HintedDialect}

\* C4 (as claimed): with a type hint, get_results returns the records of the
\* hinted dialect's parser, also when the header validates for a dialect
\* earlier in the priority order.
C4_HintedDialectWins ==
    (pc = "done" /\ ret.status = "ok" /\ results_type # None)
        => ret.value = Parser(HintedDialect, input_file).results

\* C4 (amended): with a type hint, whenever get_results returns, it returns the
\* records of the hinted dialect's parser unless the header validates for a
\* dialect earlier in the priority order; then it returns the records of the
\* first such dialect.
C4_HintedUnlessEarlierValid ==
    (pc = "done" /\ ret.status = "ok" /\ results_type # None)
        => IF EarlierValid = {}
           THEN ret.value = Parser(HintedDialect, input_file).results
           ELSE LET k == CHOOSE k \in EarlierValid : \A j \in EarlierValid : k <= j
                IN  ret.value = Parser(ClaimedOrder[k], input_file).results

\* C4 witness: under the hint 'rgi' a file with the StarAmr header returned
\* the StarAmr parser's records, which differ from the Rgi parser's
C4_Witness ==
    /\ pc = "done"
    /\ ret.status = "ok"
    /\ results_type = "rgi"
    /\ file_header = default_header("Staramr")
    /\ ret.value = Parser("Staramr", input_file).results
    /\ ret.value # Parser("Rgi", input_file).results

MatchesNoSchema == \A d \in Dialects : file_header # default_header(d)

\* C5: for a readable file whose header matches none of the four schemas and
\* with no type hint, get_results returns an empty record list and raises no
\* error, whatever the header's column count and the data rows' lengths.
C5_NoMatchReturnsEmpty ==
    (pc = "done" /\ results_type = None /\ MatchesNoSchema)
        => ret = Returned(<<>>)

FullLengthRows == {i \in 2..Len(input_file) : Len(input_file[i]) = Len(file_header)}

\* C8: a file whose header is a dialect's expected header followed by extra
\* trailing columns is accepted: detection and parsing complete without
\* raising and each full-length row yields a record.
C8_ExtraColumnsAccepted ==
    (pc = "done" /\ results_type = None /\
     \E d \in Dialects : file_header \in ExtendedHeaders(d))
        => ret.status = "ok" /\ Len(ret.value) = Cardinality(FullLengthRows)

\* C10: parsing the data rows of a file never raises, for any header and any
\* row lengths, a row with more fields than the header included.
C10_ParsingNeverRaises ==
    \A k \in 1..Len(consulted) : Parser(consulted[k], input_file).status = "ok"

-----------------------------------------------------------------------------
(* Claims on filtering (SpecFilter) *)

\* the records get_results parses from the results file
ParsedRecords == get_results(input_file, results_type).value

\* the data rows of the knowledge-base file, read without the loader
KbDataRows == Tail(database_file)

\* the knowledge base has an entry for gene with the species, the configured
\* database and a count at or above the threshold
KnownAboveThreshold(gene, sp) ==
    \E i \in DOMAIN KbDataRows :
        /\ KbDataRows[i][1] = sp
        /\ KbDataRows[i][2] = gene
        /\ KbDataRows[i][5] = database_name
        /\ IntLiterals[KbDataRows[i][3]] >= minimum_occurances

\* C1: filter_by_species(species) returns exactly the parsed records whose gene
\* has a knowledge-base entry with the same species, the configured database
\* and a count at or above the threshold, and excludes every other record.
C1_ReturnsKnownGenes ==
    (pc = "filtered" /\ ret.status = "ok") =>
        ret.value = SelectSeq(ParsedRecords,
                              LAMBDA r : KnownAboveThreshold(r.attrs["gene"], species))

GenesOf(records) == [i \in DOMAIN records |-> records[i].attrs["gene"]]

\* C1 witness: entries (SpeciesX, geneA, 5, db1) and (SpeciesX, geneB, 1, db1),
\* threshold 3 and records [geneA, geneB, geneC] have given [geneA]
C1_Witness ==
    /\ pc = "filtered"
    /\ species = "SpeciesX"
    /\ minimum_occurances = 3
    /\ KbDataRows = <<KbRow("SpeciesX", "geneA", "5", "db1"),
                      KbRow("SpeciesX", "geneB", "1", "db1")>>
    /\ GenesOf(ParsedRecords) = <<"geneA", "geneB", "geneC">>
    /\ ret.status = "ok"
    /\ GenesOf(ret.value) = <<"geneA">>

\* sub[i..] can be found, in order, among full[j..]
RECURSIVE SubsequenceFrom(_, _, _, _)
SubsequenceFrom(sub, full, i, j) ==
    IF i > Len(sub) THEN TRUE
    ELSE IF j > Len(full) THEN FALSE
    ELSE IF sub[i] = full[j] THEN SubsequenceFrom(sub, full, i + 1, j + 1)
    ELSE SubsequenceFrom(sub, full, i, j + 1)

IsSubsequence(sub, full) == SubsequenceFrom(sub, full, 1, 1)

CountRecord(records, r) == Cardinality({i \in DOMAIN records : records[i] = r})

\* C2: the list returned by filter_by_species is a subsequence of the parsed
\* record list: retained records keep their input order, no record appears
\* more often than in the input, and a gene that occurs in several input
\* records is retained once per record.
C2_ReturnsSubsequence ==
    (pc = "filtered" /\ ret.status = "ok") =>
        LET parsed == ParsedRecords
        IN  /\ IsSubsequence(ret.value, parsed)
            /\ \A r \in Range(parsed) :
                  CountRecord(ret.value, r) \in {0, CountRecord(parsed, r)}

\* C2 witness: a retained gene occurs in two input records around a record
\* that is dropped, and both of its records are returned
C2_Witness ==
    /\ pc = "filtered"
    /\ ret.status = "ok"
    /\ GenesOf(ParsedRecords) = <<"geneA", "geneB", "geneA">>
    /\ GenesOf(ret.value) = <<"geneA", "geneA">>

IsShortRow(d, row) == Len(row) < minimum_num_columns(d)

\* the file without its data rows that are shorter than dialect d's minimum
WithoutShortRows(d, file) ==
    <<file[1]>> \o SelectSeq(Tail(file), LAMBDA row : ~IsShortRow(d, row))

\* the dialect whose header the results file carries
FileDialect == CHOOSE d \in Dialects : file_header = default_header(d)

\* the record that dialect d's parser makes of one data row under the file's
\* header
RecordOf(d, row) == populate_results(d, <<file_header, row>>).value[1]

\* C9: a data row with fewer fields than the dialect's minimum column count is
\* dropped without raising: it yields no record, the records of the rows
\* before and after it are unaffected, and it contributes to no filtered
\* result and no summary count.
C9_ShortRowsDropped ==
    LET longrows == Tail(WithoutShortRows(FileDialect, input_file))
        records == [k \in DOMAIN longrows |-> RecordOf(FileDialect, longrows[k])]
    IN  /\ pc = "filtered" =>
              /\ populate_results(FileDialect, input_file) = Returned(records)
              /\ ret.status = "ok"
              /\ IsSubsequence(ret.value, records)
        /\ pc = "summarised" =>
              \A k \in DOMAIN summary.value :
                  summary.value[k].occurances =
                      Cardinality({i \in DOMAIN longrows :
                          /\ longrows[i][gene_column(FileDialect)] =
                                 summary.value[k].gene_name
                          /\ KnownAboveThreshold(summary.value[k].gene_name, species)})

\* C9 witness: a file with a short row naming geneA between two full rows, of
\* which the first names geneA, has been filtered and summarised: geneA is
\* counted once
C9_Witness ==
    /\ pc = "summarised"
    /\ Len(input_file) = 4
    /\ ~IsShortRow(FileDialect, input_file[2])
    /\ IsShortRow(FileDialect, input_file[3])
    /\ ~IsShortRow(FileDialect, input_file[4])
    /\ input_file[2][gene_column(FileDialect)] = "geneA"
    /\ input_file[3][gene_column(FileDialect)] = "geneA"
    /\ input_file[4][gene_column(FileDialect)] = "geneB"
    /\ summary.value = <<SummaryResult("geneA", 1)>>

-----------------------------------------------------------------------------
(* Claims on rendering (SpecDetect) *)

\* the dialect whose parser produced the records that get_results returned
ChosenDialect == consulted[Len(consulted)]

\* the data rows of the results file
DataRows == Tail(input_file)

\* every data row is either shorter than the dialect's minimum or has exactly
\* as many fields as the dialect's header
ShortOrExactRows(d) ==
    \A i \in DOMAIN DataRows :
        IsShortRow(d, DataRows[i]) \/ Len(DataRows[i]) = Len(default_header(d))

-----------------------------------------------------------------------------
(* Claims on filtering and the summary, continued (SpecFilter) *)

\* no data row of the knowledge-base file names the species, in any database
AbsentFromKb(sp) == \A i \in DOMAIN KbDataRows : KbDataRows[i][1] # sp

\* C12: filter_by_species for a species without any knowledge-base entry, in
\* any database, returns the empty list without raising, whatever records the
\* results file parses to.
C12_AbsentSpeciesEmpty ==
    (/\ pc = "filtered"
     /\ AbsentFromKb(species)
     /\ get_results(input_file, results_type).status = "ok"
     /\ populate(database_file).status = "ok")
        => ret = Returned(<<>>)

\* C12 witness: SpeciesY has no entry, the knowledge base knows geneA for
\* SpeciesX at count 5, the file holds a geneA record, and the filter for
\* SpeciesY returned nothing
C12_Witness ==
    /\ pc = "filtered"
    /\ species = "SpeciesY"
    /\ AbsentFromKb("SpeciesY")
    /\ KnownAboveThreshold("geneA", "SpeciesX")
    /\ \E i \in DOMAIN ParsedRecords : ParsedRecords[i].attrs["gene"] = "geneA"
    /\ ret = Returned(<<>>)

\* the position of the first record that bears the gene
FirstOccurrence(genes, gene) ==
    CHOOSE i \in DOMAIN genes :
        genes[i] = gene /\ \A j \in 1..i - 1 : genes[j] # gene

RECURSIVE SumOfCounts(_)
SumOfCounts(entries) ==
    IF entries = <<>> THEN 0
    ELSE Head(entries).occurances + SumOfCounts(Tail(entries))

\* C13: aggregate_results maps every gene that occurs in the record list, and
\* nothing else, to the number of records that bear it, with the keys in the
\* order of first occurrence; the counts sum to the number of records.
C13_CountsByFirstOccurrence ==
    pc = "summarised" =>
        LET genes == GenesOf(ret.value)
            s == summary.value
        IN  /\ {s[k].gene_name : k \in DOMAIN s} = Range(genes)
            /\ \A k, l \in DOMAIN s : s[k].gene_name = s[l].gene_name => k = l
            /\ \A k \in DOMAIN s :
                   s[k].occurances =
                       Cardinality({i \in DOMAIN genes : genes[i] = s[k].gene_name})
            /\ \A k, l \in DOMAIN s :
                   k < l => FirstOccurrence(genes, s[k].gene_name)
                                < FirstOccurrence(genes, s[l].gene_name)
            /\ SumOfCounts(s) = Len(ret.value)

\* C13 witness: the records [geneA, geneA, geneB] have been aggregated to
\* geneA: 2 then geneB: 1
C13_Witness ==
    /\ pc = "summarised"
    /\ GenesOf(ret.value) = <<"geneA", "geneA", "geneB">>
    /\ summary.value = <<SummaryResult("geneA", 2), SummaryResult("geneB", 1)>>

-----------------------------------------------------------------------------
(* Claims on the knowledge base (SpecLoad) *)

\* the row has the five columns that supply species, gene, count and database
SuppliesDatabase(row) == Len(row) >= 5

IsInteger(text) == text \in DOMAIN IntLiterals

\* the entry that a row of five or more columns with an integer count denotes
EntryOf(row) == SpeciesGenes(row[1], row[2], IntLiterals[row[3]], row[5])

\* C14: a data row with too few columns to supply species, gene, count and
\* source database (the fifth column) is skipped, and the load succeeds with
\* the entries of all other rows.
C14_ShortKbRowsSkipped ==
    (/\ pc \in {"loaded", "failed"}
     /\ \A i \in DOMAIN KbDataRows :
            SuppliesDatabase(KbDataRows[i]) => IsInteger(KbDataRows[i][3]))
        => LET complete == SelectSeq(KbDataRows, SuppliesDatabase)
           IN  ret = Returned([k \in DOMAIN complete |-> EntryOf(complete[k])])

\* C15: when a data row of sufficient length has a count that is no integer,
\* the construction of the knowledge base fails, and no query is ever answered
\* by an object of a failed construction.
C15_LoadAllOrNothing ==
    /\ (/\ pc # "new"
         /\ \E i \in DOMAIN KbDataRows :
                /\ Len(KbDataRows[i]) >= SpeciesToGenes_minimum_num_columns
                /\ ~IsInteger(KbDataRows[i][3]))
            => (pc = "failed" /\ ret.status = "raise" /\ ret.value = <<>>)
    /\ pc = "failed" => answer = NoCall
    /\ answer # NoCall => ret.status = "ok"

\* C15 witness: the load of a file whose second data row has the count 5.0,
\* after a well-formed first row, has failed with ValueError
C15_Witness ==
    /\ pc = "failed"
    /\ Len(KbDataRows) = 2
    /\ KbDataRows[1] = KbRow("SpeciesX", "geneA", "5", "db1")
    /\ KbDataRows[2] = KbRow("SpeciesX", "geneB", "5.0", "db1")
    /\ ret = RaisedList("ValueError")
    /\ answer = NoCall

\* C16: every entry of a loaded knowledge base has a non-negative count, and
\* so has the total that a query answers.
C16_CountsNonNegative ==
    /\ pc = "loaded" => \A i \in DOMAIN ret.value : ret.value[i].occurances >= 0
    /\ (answer # NoCall /\ answer.query = <<"sum_of_occurances">>)
           => answer.value >= 0

\* C17: filter_by_species(species, database) answers exactly the loaded entries
\* whose species and database equal the arguments, character for character,
\* in load order.
C17_QueryExactMatch ==
    (answer # NoCall /\ answer.query[1] = "filter_by_species")
        => LET sp == answer.query[2]
               db == answer.query[3]
               matching == {i \in DOMAIN ret.value :
                               /\ ret.value[i].species = sp
                               /\ ret.value[i].database_name = db}
           IN  /\ IsSubsequence(answer.value, ret.value)
               /\ \A k \in DOMAIN answer.value :
                      /\ answer.value[k].species = sp
                      /\ answer.value[k].database_name = db
               /\ Len(answer.value) = Cardinality(matching)

\* C17 witness: of the entries (SpeciesX, db1), (speciesx, db1), (SpeciesX,
\* db1) the query for SpeciesX in db1 answered the first and the third
C17_Witness ==
    /\ answer # NoCall
    /\ answer.query = <<"filter_by_species", "SpeciesX", "db1">>
    /\ Len(ret.value) = 3
    /\ ret.value[1].species = "SpeciesX"
    /\ ret.value[2].species = "speciesx"
    /\ ret.value[3].species = "SpeciesX"
    /\ answer.value = <<ret.value[1], ret.value[3]>>

\* the sequence holds exactly the values of the set, each once, least first
SortedDistinct(seq, values) ==
    /\ Range(seq) = values
    /\ \A i, j \in DOMAIN seq : i < j => StrLess(seq[i], seq[j])

\* the data rows that the loader turns into entries
EntryRows ==
    SelectSeq(KbDataRows,
              LAMBDA row : Len(row) >= SpeciesToGenes_minimum_num_columns)

\* C18: all_species, all_databases and all_genes answer the distinct values of
\* their field over the entries, each once and in ascending order;
\* species_databases answers the sorted distinct databases of one species;
\* sum_of_occurances answers the sum of the counts of all entries, duplicate
\* entries included.
C18_QueriesSortedDistinct ==
    answer # NoCall =>
        LET q == answer.query
            rows == EntryRows
        IN  /\ q[1] = "all_species" =>
                   SortedDistinct(answer.value, {rows[i][1] : i \in DOMAIN rows})
            /\ q[1] = "all_genes" =>
                   SortedDistinct(answer.value, {rows[i][2] : i \in DOMAIN rows})
            /\ q[1] = "all_databases" =>
                   SortedDistinct(answer.value, {rows[i][5] : i \in DOMAIN rows})
            /\ q[1] = "species_databases" =>
                   SortedDistinct(answer.value,
                       {rows[i][5] : i \in {j \in DOMAIN rows : rows[j][1] = q[2]}})
            /\ q[1] = "sum_of_occurances" =>
                   answer.value =
                       SumOfCounts([i \in DOMAIN rows |->
                                       [occurances |-> IntLiterals[rows[i][3]]]])

\* C18 witness: of the entries (speciesx, geneB, 2), (SpeciesX, geneA, 5),
\* (SpeciesX, geneA, 5), loaded in this order, all_species answered SpeciesX
\* before speciesx
C18_Witness ==
    /\ answer # NoCall
    /\ answer.query = <<"all_species">>
    /\ KbDataRows = <<KbRow("speciesx", "geneB", "2", "db1"),
                      KbRow("SpeciesX", "geneA", "5", "db1"),
                      KbRow("SpeciesX", "geneA", "5", "db1")>>
    /\ answer.value = <<"SpeciesX", "speciesx">>

-----------------------------------------------------------------------------
(* Claims on a run (SpecRun) *)

\* the sequence ends with the given lines
EndsWith(lines, tail) ==
    /\ Len(lines) >= Len(tail)
    /\ SubSeq(lines, Len(lines) - Len(tail) + 1, Len(lines)) = tail

\* the knowledge base has an entry for the species, in some database
PresentInKb(sp) == \E i \in DOMAIN KbDataRows : KbDataRows[i][1] = sp

\* the run has just finished the pass for a species of the knowledge base
\* and the filter retained none of the records
ZeroRetained ==
    /\ pc \in {"loop", "returned"}
    /\ processed >= 1
    /\ species = self_species[processed]
    /\ PresentInKb(species)
    /\ ret = Returned(<<>>)

\* C19: for a species of the knowledge base with zero retained records the run
\* emits the header line of the detected dialect, its tab-joined column names,
\* followed by an empty body, where it writes the results: to the output
\* file, or to the console when no output file is given.
C19_ZeroRetainedEmitsHeader ==
    ZeroRetained =>
        LET block == <<join("\t", default_header(FileDialect)), "">>
        IN  IF output_file # None THEN EndsWith(output_file, block)
            ELSE EndsWith(stdout, block)

\* the distinct genes of a list, in order of first occurrence
RECURSIVE DistinctInOrder(_)
DistinctInOrder(genes) ==
    IF genes = <<>> THEN <<>>
    ELSE <<Head(genes)>> \o
         DistinctInOrder(SelectSeq(Tail(genes), LAMBDA g : g # Head(genes)))

\* the summary lines of a species: one line per distinct gene of the retained
\* records, or the no_results line
ExpectedSummaryLines(spec, records) ==
    LET genes == GenesOf(records)
        distinct == DistinctInOrder(genes)
    IN  IF records = <<>> THEN <<spec \o "\tno_results\t0">>
        ELSE [k \in DOMAIN distinct |->
                 spec \o "\t" \o distinct[k] \o "\t" \o
                 ToString(Cardinality({i \in DOMAIN genes : genes[i] = distinct[k]}))]

\* C20: for every species that a run processes, the summary file gains, after
\* the lines it holds, one line species<TAB>gene<TAB>count per distinct gene of
\* the retained records in first-occurrence order, or the single line
\* species<TAB>no_results<TAB>0; no step of the run changes or removes a line
\* the file already holds.
C20_SummaryAppended ==
    [][/\ processed' = processed + 1 =>
              summary_file' = summary_file \o
                  ExpectedSummaryLines(self_species[processed + 1], ret'.value)
       /\ summary_file' # summary_file =>
              /\ pc = "loop"
              /\ summary_file # None
              /\ summary_file' = summary_file \o
                     ExpectedSummaryLines(self_species[processed + 1],
                         FilterResults_filter_by_species(input_file, results_type,
                             database_file, minimum_occurances, database_name,
                             self_species[processed + 1]).value)]_vars

\* C20 witness: a run over SpeciesX and SpeciesY on the records [geneB, geneA]
\* has written one line per gene of SpeciesX and then the no_results line of
\* SpeciesY
C20_Witness ==
    /\ pc = "returned"
    /\ self_species = <<"SpeciesX", "SpeciesY">>
    /\ processed = 2
    /\ summary_file = <<"SpeciesX\tgeneB\t1", "SpeciesX\tgeneA\t1",
                        "SpeciesY\tno_results\t0">>

-----------------------------------------------------------------------------
(* Claims about a constructed Scagaire and its run (SpecScagaire) *)

RECURSIVE Flatten(_)
Flatten(lists) ==
    IF lists = <<>> THEN <<>> ELSE Head(lists) \o Flatten(Tail(lists))

\* the species that the fields of the --species option stand for
ExpandedFields ==
    Flatten([i \in DOMAIN options.species |->
                IF options.species[i] = "skin" THEN <<"SpeciesX", "SpeciesY">>
                ELSE <<options.species[i]>>])

\* the records the filter retains for a species, on its own
RetainedFor(sp) ==
    FilterResults_filter_by_species(input_file, results_type, database_file,
        minimum_occurances, database_name, sp).value

HeaderPlaceholder == "<header line>"

\* the block of a species in a file of several species: the separator naming
\* it, a header line, the rendered records (an empty line when there is none)
ExpectedBlock(sp) ==
    LET lines == render(RetainedFor(sp)).value
    IN  <<"Results for species:\t" \o sp, "=======================",
          HeaderPlaceholder>> \o (IF lines = <<>> THEN <<"">> ELSE lines)

RECURSIVE ExpectedOutput(_)
ExpectedOutput(n) ==
    IF n = 0 THEN <<>>
    ELSE ExpectedOutput(n - 1) \o ExpectedBlock(self_species[n])

RECURSIVE ExpectedSummary(_)
ExpectedSummary(n) ==
    IF n = 0 THEN <<>>
    ELSE ExpectedSummary(n - 1) \o
         ExpectedSummaryLines(self_species[n], RetainedFor(self_species[n]))

\* file holds the expected lines, whatever its header lines say
SameButHeaders(file, expected) ==
    /\ Len(file) = Len(expected)
    /\ \A k \in DOMAIN expected :
           expected[k] = HeaderPlaceholder \/ file[k] = expected[k]

\* C21: in a run over several species (the option's fields with categories
\* expanded in place), whenever n species have been processed the output file
\* holds exactly the blocks of the first n species of the list, in list
\* order, each complete and led by the separator naming its species, and the
\* summary file holds exactly the summary lines of those n species in the
\* same order.
C21_BlocksInSpeciesOrder ==
    (pc \in {"run", "loop", "returned"} /\ Len(self_species) > 1) =>
        /\ self_species = ExpandedFields
        /\ output_file # None =>
               SameButHeaders(output_file, ExpectedOutput(processed))
        /\ summary_file = ExpectedSummary(processed)

\* C21 witness: the option "SpeciesY,skin" on the records [geneA, geneB] has
\* run over SpeciesY, SpeciesX, SpeciesY: the file holds three blocks, the
\* second with the two records of SpeciesX
C21_Witness ==
    /\ pc = "returned"
    /\ options.species = <<"SpeciesY", "skin">>
    /\ processed = 3
    /\ output_file # None
    /\ Len(output_file) = 13
    /\ output_file[1] = "Results for species:\tSpeciesY"
    /\ output_file[5] = "Results for species:\tSpeciesX"
    /\ output_file[10] = "Results for species:\tSpeciesY"
    /\ summary_file = <<"SpeciesY\tno_results\t0", "SpeciesX\tgeneA\t1",
                        "SpeciesX\tgeneB\t1", "SpeciesY\tno_results\t0">>

\* the next species of the list has no entry in the knowledge base
NextSpeciesAbsent ==
    /\ pc = "loop"
    /\ processed < Len(self_species)
    /\ ~PresentInKb(self_species[processed + 1])

\* C24: the filter is only ever called for a species of the knowledge base;
\* when the next species of the list is absent, the step of the run prints
\* the error line and returns without raising, leaves both files and the
\* count of processed species as they are, and nothing happens after the
\* return.
C24_AbsentSpeciesStopsRun ==
    [][/\ species' # species => PresentInKb(species')
       /\ NextSpeciesAbsent =>
              /\ pc' = "returned"
              /\ stdout' = Append(stdout,
                     "Error: Species not found in database so nothing to do")
              /\ UNCHANGED <<output_file, summary_file, files_on_disk,
                             processed, species, ret>>
       /\ pc # "returned"]_vars

\* C24 witness: the option "SpeciesX,SpeciesZ" with SpeciesZ absent: the run
\* has returned after the block and summary lines of SpeciesX and the error
\* line
C24_Witness ==
    /\ pc = "returned"
    /\ self_species = <<"SpeciesX", "SpeciesZ">>
    /\ processed = 1
    /\ ret.status = "ok"
    /\ output_file # None
    /\ SameButHeaders(output_file, ExpectedOutput(1))
    /\ summary_file = <<"SpeciesX\tgeneA\t1", "SpeciesX\tgeneB\t1">>
    /\ stdout = <<"Error: Species not found in database so nothing to do">>

\* no line of the file is a line that was there before construction
NoEarlierContent(file) ==
    file # None => \A k \in DOMAIN file : file[k] \notin Range(EarlierContent)

\* C25: construction with overwriting disabled and an existing output or
\* summary file exits with an error and leaves both files as they are, and
\* nothing runs afterwards; construction with overwriting enabled leaves
\* neither file in existence; and once construction has succeeded, no file
\* ever holds a line of earlier content.
C25_NoEarlierContent ==
    [][/\ (pc = "init" /\ ~options.overwrite_files /\ files_on_disk # {}) =>
              /\ pc' = "exited"
              /\ ret'.status = "raise"
              /\ UNCHANGED <<output_file, summary_file, files_on_disk>>
       /\ (pc = "init" /\ options.overwrite_files) =>
              /\ pc' = "run"
              /\ files_on_disk' = {}
              /\ (output_file' = None \/ output_file' = <<>>)
              /\ summary_file' = <<>>
       /\ pc # "exited"
       /\ pc' # "exited" =>
              /\ NoEarlierContent(output_file')
              /\ NoEarlierContent(summary_file')]_vars

\* C25 witness: the summary file existed and overwriting was disabled:
\* construction has exited and both files are as they were
C25_Witness ==
    /\ pc = "exited"
    /\ ~options.overwrite_files
    /\ files_on_disk = {"summary_file"}
    /\ summary_file = EarlierContent
    /\ output_file = <<>>
    /\ ret.error = "SystemExit: Summary file already exists, please choose another filename."

-----------------------------------------------------------------------------
(* Claims on the threshold test (SpecFilter) *)

\* the counts of the knowledge-base entries of a gene for the species and the
\* configured database, one per entry
EntryCounts(gene, sp) ==
    [i \in {k \in DOMAIN KbDataRows :
                /\ KbDataRows[k][1] = sp
                /\ KbDataRows[k][2] = gene
                /\ KbDataRows[k][5] = database_name}
        |-> IntLiterals[KbDataRows[i][3]]]

\* C26: a parsed record is among the filtered results exactly when the
\* largest count of a single knowledge-base entry of its gene (for the
\* species and the database) is at or above the threshold: counts of
\* duplicate entries are not added, and the order of the entries does not
\* matter.
C26_ThresholdPerEntry ==
    (pc = "filtered" /\ ret.status = "ok") =>
        \A g \in Range(GenesOf(ParsedRecords)) :
            LET counts == EntryCounts(g, species)
                largest == CHOOSE c \in Range(counts) :
                               \A d \in Range(counts) : c >= d
            IN  g \in Range(GenesOf(ret.value)) <=>
                    (DOMAIN counts # {} /\ largest >= minimum_occurances)

\* C26 witness: geneA has two entries of count 2 and geneB entries of count
\* 5 and 1; with threshold 3 the records [geneA, geneB] have given [geneB]
C26_Witness ==
    /\ pc = "filtered"
    /\ species = "SpeciesX"
    /\ minimum_occurances = 3
    /\ KbDataRows = <<KbRow("SpeciesX", "geneA", "2", "db1"),
                      KbRow("SpeciesX", "geneB", "5", "db1"),
                      KbRow("SpeciesX", "geneA", "2", "db1"),
                      KbRow("SpeciesX", "geneB", "1", "db1")>>
    /\ GenesOf(ParsedRecords) = <<"geneA", "geneB">>
    /\ ret.status = "ok"
    /\ GenesOf(ret.value) = <<"geneB">>

-----------------------------------------------------------------------------
(* Claims on the database builder (SpecBuild) *)

\* the databases of the build have been aggregated up to the last one done
Aggregated ==
    /\ builder.pc \in {"found", "done", "loaded"}
    /\ builder.next_database > 1

\* the assemblies whose AMR results name the gene
AssembliesWith(gene) ==
    {i \in DOMAIN builder.files_to_amr_results :
        gene \in Range(builder.files_to_amr_results[i])}

\* C22: the count that the builder computes for a gene is the number of
\* assemblies whose AMR results name the gene, however often one assembly
\* names it, and every gene found has a count.
C22_CountsDistinctAssemblies ==
    Aggregated =>
        /\ \A k \in DOMAIN builder.gene_to_freq :
               builder.gene_to_freq[k].freq =
                   Cardinality(AssembliesWith(builder.gene_to_freq[k].gene))
        /\ \A i \in DOMAIN builder.files_to_amr_results :
               \A g \in Range(builder.files_to_amr_results[i]) :
                   \E k \in DOMAIN builder.gene_to_freq :
                       builder.gene_to_freq[k].gene = g

\* the directories and the file that a build works with
BuildPaths == {"output_directory", "user_downloads", "download_tmp", "output_file"}

\* C27: between the steps of a build, whether the last call of
\* get_amr_results returned or raised, no temporary file of abricate output
\* exists.
C27_NoTempFileLeft ==
    builder.pc # "none" => builder.disk \subseteq BuildPaths

\* C28: no step of a build or of its destruction removes the output
\* directory, the output file or a downloads directory of the user; a
\* destruction with debug on removes nothing, and one with debug off removes
\* exactly the directory that download_species created, if it created one.
C28_CleanupOnlyOwnDirectories ==
    [][builder.pc # "none" =>
          /\ builder.disk \ {"download_tmp"} \subseteq builder'.disk
          /\ (builder'.destroyed /\ ~builder.destroyed) =>
                 IF builder.debug THEN builder'.disk = builder.disk
                 ELSE builder'.disk = builder.disk \ {"download_tmp"}
          /\ ~builder'.destroyed => builder.disk \subseteq builder'.disk]_vars

\* C28 witness: a build that downloaded its assemblies and wrote its file
\* was destroyed with debug off: the download directory is gone, the output
\* directory and the output file exist
C28_Witness ==
    /\ builder.pc = "done"
    /\ builder.destroyed
    /\ ~builder.debug
    /\ builder.downloads_directory = None
    /\ builder.directories_to_cleanup = <<"download_tmp">>
    /\ builder.disk = {"output_directory", "output_file"}

\* the entries of the rows that the build wrote, in file order
WrittenEntries ==
    Flatten([j \in DOMAIN builder.abricate_database |->
                [k \in DOMAIN builder.gene_to_freq |->
                    SpeciesGenes(builder.species, builder.gene_to_freq[k].gene,
                                 builder.gene_to_freq[k].freq,
                                 builder.abricate_database[j])]])

\* C29: loading an output file that holds only the rows of a build (at
\* least one) gives no entry for the first written row and, for every other
\* row, in file order, one entry with the species, gene, count and database
\* that were written, the database being the fifth field of the row.
C29_FirstWrittenRowLost ==
    (builder.pc = "loaded" /\ builder.output_rows # <<>>) =>
        /\ Len(builder.output_rows) = Len(WrittenEntries)
        /\ \A i \in DOMAIN builder.output_rows :
               builder.output_rows[i][5] = WrittenEntries[i].database_name
        /\ ret = Returned(Tail(WrittenEntries))

\* C29 witness: geneB in one assembly and geneA in two, written for db1 and
\* db2: four rows, of which the last three are loaded
C29_Witness ==
    /\ builder.pc = "loaded"
    /\ builder.abricate_database = <<"db1", "db2">>
    /\ Len(builder.output_rows) = 4
    /\ ret = Returned(<<SpeciesGenes("SpeciesX", "geneA", 2, "db1"),
                        SpeciesGenes("SpeciesX", "geneB", 1, "db2"),
                        SpeciesGenes("SpeciesX", "geneA", 2, "db2")>>)

-----------------------------------------------------------------------------
(* Claims on the comparison of two species (SpecCompare) *)

\* the rows of the knowledge-base file for a species under the database
\* filter, in file order
RowsOf(sp) ==
    SelectSeq(KbDataRows,
              LAMBDA row : row[1] = sp /\ row[5] = options.database_filter)

\* the first row of species2 for the gene
FirstOf(rows, gene) ==
    rows[CHOOSE i \in DOMAIN rows :
            /\ rows[i][2] = gene
            /\ \A j \in 1..(i - 1) : rows[j][2] # gene]

\* C30: compare returns without raising on a loadable knowledge base and
\* prints, in the order of the species1 entries under the database filter,
\* one line per species1 entry whose gene also has a species2 entry under the
\* filter: the gene, species1 and the entry's count, species2 and the count
\* of the first species2 entry of the gene; it prints no other line, so
\* nothing when the species share no gene or one of them has no entry.
C30_CompareSharedGenes ==
    (pc = "compared") =>
        LET rows1 == RowsOf(options.species1)
            rows2 == RowsOf(options.species2)
            shared == SelectSeq(rows1,
                         LAMBDA r : \E i \in DOMAIN rows2 : rows2[i][2] = r[2])
        IN  /\ ret.status = "ok"
            /\ stdout = [k \in DOMAIN shared |->
                   shared[k][2] \o "\t" \o options.species1 \o "\t" \o
                   shared[k][3] \o "\t" \o options.species2 \o "\t" \o
                   FirstOf(rows2, shared[k][2])[3]]

\* C30 witness: SpeciesX has geneA with count 5, SpeciesY has geneA with
\* counts 2 and 3: one line, with the count 2 for SpeciesY
C30_Witness ==
    /\ pc = "compared"
    /\ options.species1 = "SpeciesX"
    /\ options.species2 = "SpeciesY"
    /\ KbDataRows = <<KbRow("SpeciesX", "geneA", "5", "db1"),
                      KbRow("SpeciesY", "geneA", "2", "db1"),
                      KbRow("SpeciesY", "geneA", "3", "db1")>>
    /\ stdout = <<"geneA\tSpeciesX\t5\tSpeciesY\t2">>

-----------------------------------------------------------------------------
(* Claims on filter passes in progress at the same time (SpecPasses) *)

\* C23: however the steps of the calls of filter_by_species interleave, a
\* step changes the local variables of one call only and no field of the
\* FilterResults object, no line of the results file and no line of the
\* knowledge base; and a call ends with the outcome that a call for its
\* species gives on its own.
C23_PassesIndependent ==
    [][/\ UNCHANGED inputs
       /\ \E p \in PassIds : \A q \in PassIds \ {p} : passes'[q] = passes[q]
       /\ \A p \in PassIds :
              (passes'[p].pc \in {"done", "raised"} /\ passes[p].pc # passes'[p].pc)
                  => passes'[p].ret =
                         FilterResults_filter_by_species(input_file, results_type,
                             database_file, minimum_occurances, database_name,
                             passes'[p].species)]_vars

\* C23 witness: calls for SpeciesX and SpeciesY on the records [geneA, geneB]
\* have both ended, the first with [geneA] and the second with [geneB]
C23_Witness ==
    /\ pc = "passes"
    /\ passes[1].pc = "done"
    /\ passes[2].pc = "done"
    /\ passes[1].species = "SpeciesX"
    /\ passes[2].species = "SpeciesY"
    /\ GenesOf(passes[1].all_results) = <<"geneA", "geneB">>
    /\ GenesOf(passes[1].ret.value) = <<"geneA">>
    /\ GenesOf(passes[2].ret.value) = <<"geneB">>

====
